---- MODULE Spec2Model ----
(***************************************************************************)
(* AutoTicket: the offer acquisition and self-healing extraction pipeline. *)
(*                                                                         *)
(* Python values are modelled as follows.  A dict is a record whose        *)
(* DOMAIN is the dict's key set, so `k in d` is k \in DOMAIN d and d[k]    *)
(* of a missing key is a KeyError.  A value that is not a dict is the      *)
(* record [pytype |-> ...].  A list is a sequence.  A text "HH:MM" is its  *)
(* minute of the day; a text that is no such time is BadTime.  A number    *)
(* rendered as text is the number; a text float() rejects is NotANumber.   *)
(* A function that may raise is modelled by two operators, f_raises(x)     *)
(* and f(x), the second meaningful only where the first is FALSE.          *)
(***************************************************************************)
EXTENDS Integers, Sequences, FiniteSets, TLC

VARIABLES
    now,                \* time.time(), in seconds
    store,              \* cache._store of core/cache.py
    disk,               \* the JSON files of the working directory
    DYNAMIC_CITY_CACHE, \* the runtime cache of search_offers.py
    settings,           \* what was configured at import: the Amadeus client
                        \* (amadeus is not None) and settings.SERPAPI_KEY
    answered,           \* per cache key, the latest API-mode request the
                        \* source answered since the cache was last cleared
    last,               \* the operation that ran last and what it returned
    raw_offers,         \* normalize_offers: the batch handed to the call
    normalized,         \* normalize_offers: what the call produced
    npc,                \* normalize_offers: "call" before, "returned" after
    trace,              \* the calls made so far of the function or object
                        \* exercised on its own, each with what it returned
    lock,               \* cache._lock: the thread that holds it, or "free"
    tpc,                \* per thread, the statement of SimpleCache it is at
    treg                \* per thread, its arguments and local variables

nvars == <<raw_offers, normalized, npc>>
svars == <<now, store, disk, DYNAMIC_CITY_CACHE, settings, answered, last>>
xvars == <<trace, lock, tpc, treg>>
vars == <<now, store, disk, DYNAMIC_CITY_CACHE, settings, answered, last,
          raw_offers, normalized, npc, trace, lock, tpc, treg>>

-----------------------------------------------------------------------------
(* Bounds of the model *)

MaxBatch == 2
MaxTicks == 3
MaxCacheCalls == 3
MaxResolveCalls == 3
MaxExtractCalls == 2
MaxScoreCalls == 2
MaxRank == 3
MaxThreadCalls == 3

-----------------------------------------------------------------------------
(* Python values *)

None == [pytype |-> "NoneType"]
EmptyDict == [k \in {} |-> 0]
AString == [pytype |-> "str"]

IsDict(v) == "pytype" \notin DOMAIN v

\* d without the key k
Without(d, k) == [x \in (DOMAIN d) \ {k} |-> d[x]]

\* d with d[k] = v
With(d, k, v) == [x \in (DOMAIN d) \cup {k} |-> IF x = k THEN v ELSE d[x]]

\* texts the code slices, trims or upper-cases are sequences of characters
NH == <<"N", "H">>
HND == <<"H", "N", "D">>
ITM == <<"I", "T", "M">>
FUK == <<"F", "U", "K">>

BadTime == -1
NotANumber == -1
MinutesPerDay == 24 * 60

IsTimeOfDay(t) == t \in 0..(MinutesPerDay - 1)

Dates == {"2026-03-03", "2026-03-04"}
BadDate == "03/03/2026"

\* datetime.fromisoformat(f"{date}T{HH:MM}:00") and
\* datetime.strptime(s, '%Y-%m-%d %H:%M'): ValueError unless both parts parse
datetime_raises(at) == ~(at.date \in Dates /\ IsTimeOfDay(at.tod))

\* datetime.now() of normalize_serpapi_offer, the wall clock at the call
WallClock == [date |-> "now", tod |-> 0]

-----------------------------------------------------------------------------
(* normalize_offers.py *)

\* "PT{h}H{m}M": the regex PT(?:(\d+)H)?(?:(\d+)M)? matches digits only, so
\* after a negative hour count it matches the bare "PT" and both groups are
\* empty
parse_duration(pt_duration) ==
    IF pt_duration.h < 0 THEN 0
    ELSE IF pt_duration.m < 0 THEN pt_duration.h * 60
    ELSE pt_duration.h * 60 + pt_duration.m

amadeus_segment_raises(seg) ==
    \/ ~({"departure", "arrival", "carrierCode", "number", "duration"}
            \subseteq DOMAIN seg)
    \/ ~({"iataCode", "at"} \subseteq DOMAIN seg.departure)
    \/ ~({"iataCode", "at"} \subseteq DOMAIN seg.arrival)
    \/ datetime_raises(seg.departure.at)
    \/ datetime_raises(seg.arrival.at)

amadeus_segment(seg) ==
    [departure_iata |-> seg.departure.iataCode,
     arrival_iata |-> seg.arrival.iataCode,
     departure_time |-> seg.departure.at,
     arrival_time |-> seg.arrival.at,
     carrier_code |-> seg.carrierCode,
     flight_number |-> seg.number,
     duration_minutes |-> parse_duration(seg.duration)]

normalize_amadeus_offer_raises(raw) ==
    \/ "itineraries" \notin DOMAIN raw
    \/ Len(raw.itineraries) = 0
    \/ ~({"duration", "segments"} \subseteq DOMAIN raw.itineraries[1])
    \/ \E i \in 1..Len(raw.itineraries[1].segments) :
           amadeus_segment_raises(raw.itineraries[1].segments[i])
    \/ "price" \notin DOMAIN raw
    \/ ~({"total", "currency"} \subseteq DOMAIN raw.price)
    \/ raw.price.total = NotANumber
    \/ "id" \notin DOMAIN raw
    \/ /\ ~("validatingAirlineCodes" \in DOMAIN raw
              /\ Len(raw.validatingAirlineCodes) > 0)
       /\ Len(raw.itineraries[1].segments) = 0

MutStopsCountsSegments(segments) == Len(segments)

\* stops=len(segments) - 1, the same expression in both conversion rules
StopsOf(segments) == Len(segments) - 1

normalize_amadeus_offer(raw) ==
    LET itinerary == raw.itineraries[1]
        segments == [i \in 1..Len(itinerary.segments) |->
                        amadeus_segment(itinerary.segments[i])]
    IN  [id |-> raw.id,
         source |-> "amadeus",
         price |-> raw.price.total,
         currency |-> raw.price.currency,
         total_duration_minutes |-> parse_duration(itinerary.duration),
         segments |-> segments,
         carrier_main |->
             IF "validatingAirlineCodes" \in DOMAIN raw
                /\ Len(raw.validatingAirlineCodes) > 0
             THEN raw.validatingAirlineCodes[1]
             ELSE segments[1].carrier_code,
         stops |-> StopsOf(segments),
         score |-> 0,
         score_breakdown |-> EmptyDict]

\* f.get(k, {}).get('id'): None when either key is missing
SerpAirportId(f, k) ==
    IF k \in DOMAIN f /\ "id" \in DOMAIN f[k] THEN f[k].id ELSE "None"

serpapi_segment_raises(f) ==
    \/ "departure_time" \in DOMAIN f /\ datetime_raises(f.departure_time)
    \/ "arrival_time" \in DOMAIN f /\ datetime_raises(f.arrival_time)
    \* Segment.departure_iata and arrival_iata are str: None fails validation
    \/ SerpAirportId(f, "departure_airport") = "None"
    \/ SerpAirportId(f, "arrival_airport") = "None"

serpapi_segment(f) ==
    [departure_iata |-> SerpAirportId(f, "departure_airport"),
     arrival_iata |-> SerpAirportId(f, "arrival_airport"),
     departure_time |->
         IF "departure_time" \in DOMAIN f THEN f.departure_time ELSE WallClock,
     arrival_time |->
         IF "arrival_time" \in DOMAIN f THEN f.arrival_time ELSE WallClock,
     carrier_code |-> IF "airline_code" \in DOMAIN f THEN f.airline_code ELSE <<>>,
     flight_number |->
         IF "flight_number" \in DOMAIN f THEN f.flight_number ELSE <<>>,
     duration_minutes |-> IF "duration" \in DOMAIN f THEN f.duration ELSE 0]

\* raw.get('flights', [])
SerpFlights(raw) == IF "flights" \in DOMAIN raw THEN raw.flights ELSE <<>>

normalize_serpapi_offer_raises(raw) ==
    \/ \E i \in 1..Len(SerpFlights(raw)) :
           serpapi_segment_raises(SerpFlights(raw)[i])
    \/ "price" \in DOMAIN raw /\ raw.price = NotANumber

normalize_serpapi_offer(raw) ==
    LET current_flights == SerpFlights(raw)
        segments == [i \in 1..Len(current_flights) |->
                        serpapi_segment(current_flights[i])]
    IN  [id |-> IF "token" \in DOMAIN raw THEN raw.token
                \* 'serp_' + str(raw.get('price')): "serp_None" without a price
                ELSE IF "price" \in DOMAIN raw THEN <<"serp_", raw.price, <<>>>>
                ELSE <<"serp_", 0, <<"N", "o", "n", "e">>>>,
         source |-> "serpapi",
         price |-> IF "price" \in DOMAIN raw THEN raw.price ELSE 0,
         currency |-> "JPY",
         total_duration_minutes |->
             IF "total_duration" \in DOMAIN raw THEN raw.total_duration ELSE 0,
         segments |-> segments,
         carrier_main |->
             IF Len(segments) > 0 THEN segments[1].carrier_code ELSE <<"U", "N", "K">>,
         stops |-> StopsOf(segments),
         score |-> 0,
         score_breakdown |-> EmptyDict]

\* raw.get('_source')
SourceOf(raw) == IF "_source" \in DOMAIN raw THEN raw._source ELSE "None"

\* One turn of the loop of normalize_offers.  "raise": raw.get of a value
\* that is no dict raises AttributeError inside the try, and the handler's
\* own raw.get('_source') raises it again, outside any try.
NormalizeOne(raw) ==
    IF ~IsDict(raw) THEN "raise"
    ELSE IF SourceOf(raw) \in {"amadeus", "ena_scraper"}
         THEN IF normalize_amadeus_offer_raises(raw) THEN "skip" ELSE "amadeus"
    ELSE IF SourceOf(raw) = "serpapi"
         THEN IF normalize_serpapi_offer_raises(raw) THEN "skip" ELSE "serpapi"
    ELSE "skip"

RECURSIVE NormalizeFrom(_, _, _)
NormalizeFrom(batch, i, acc) ==
    IF i > Len(batch) THEN [raised |-> FALSE, offers |-> acc]
    ELSE LET raw == batch[i]
             how == NormalizeOne(raw)
         IN  IF how = "raise" THEN [raised |-> TRUE, offers |-> <<>>]
             ELSE IF how = "amadeus"
                  THEN NormalizeFrom(batch, i + 1,
                                     Append(acc, normalize_amadeus_offer(raw)))
             ELSE IF how = "serpapi"
                  THEN NormalizeFrom(batch, i + 1,
                                     Append(acc, normalize_serpapi_offer(raw)))
             ELSE NormalizeFrom(batch, i + 1, acc)

normalize_offers(batch) == NormalizeFrom(batch, 1, <<>>)

-----------------------------------------------------------------------------
(* scrape_ena.py: build_amadeus_format *)

FlightDataKeys ==
    {"departure_time", "arrival_time", "id", "price", "airline", "origin",
     "destination", "flight_number"}

\* KeyError on a missing key; ValueError when a time is no "HH:MM"
build_amadeus_format_raises(flight_data) ==
    \/ ~(FlightDataKeys \subseteq DOMAIN flight_data)
    \/ ~IsTimeOfDay(flight_data.departure_time)
    \/ ~IsTimeOfDay(flight_data.arrival_time)

build_amadeus_format(flight_data, date) ==
    LET dep_time == flight_data.departure_time
        arr_time == flight_data.arrival_time
        duration_mins == arr_time - dep_time
        duration_str == [h |-> duration_mins \div 60, m |-> duration_mins % 60]
    IN  [_source |-> "ena_scraper",
         id |-> flight_data.id,
         \* str(price), which float() reads back in normalize_amadeus_offer
         price |-> [total |-> flight_data.price, currency |-> "JPY"],
         validatingAirlineCodes |-> <<flight_data.airline>>,
         itineraries |-> <<
             [duration |-> duration_str,
              segments |-> <<
                  [departure |-> [iataCode |-> flight_data.origin,
                                  at |-> [date |-> date, tod |-> dep_time]],
                   arrival |-> [iataCode |-> flight_data.destination,
                                at |-> [date |-> date, tod |-> arr_time]],
                   carrierCode |-> flight_data.airline,
                   number |-> flight_data.flight_number,
                   duration |-> duration_str] >>] >>]

-----------------------------------------------------------------------------
(* Raw payloads the normalizer is exercised on *)

At(d, t) == [date |-> d, tod |-> t]

SegHndItm ==
    [departure |-> [iataCode |-> HND, at |-> At("2026-03-03", 430)],
     arrival |-> [iataCode |-> ITM, at |-> At("2026-03-03", 515)],
     carrierCode |-> NH, number |-> <<"0", "1", "5">>,
     duration |-> [h |-> 1, m |-> 25]]

SegItmFuk ==
    [departure |-> [iataCode |-> ITM, at |-> At("2026-03-03", 600)],
     arrival |-> [iataCode |-> FUK, at |-> At("2026-03-03", 670)],
     carrierCode |-> NH, number |-> <<"4", "2", "1">>,
     duration |-> [h |-> 1, m |-> 10]]

AmadeusOffer ==
    [_source |-> "amadeus", id |-> <<"AM", 1, <<>>>>,
     price |-> [total |-> 15000, currency |-> "JPY"],
     validatingAirlineCodes |-> <<NH>>,
     itineraries |-> <<[duration |-> [h |-> 1, m |-> 25],
                        segments |-> <<SegHndItm>>]>>]

AmadeusOneStop ==
    [AmadeusOffer EXCEPT
        !.id = <<"AM", 2, <<>>>>,
        !.itineraries = <<[duration |-> [h |-> 4, m |-> 0],
                           segments |-> <<SegHndItm, SegItmFuk>>]>>]

\* a payload that supplies a stop count of its own
AmadeusOwnStops == With(AmadeusOffer, "stops", 5)

AmadeusNoSegments ==
    [AmadeusOffer EXCEPT
        !.itineraries = <<[duration |-> [h |-> 0, m |-> 0], segments |-> <<>>]>>]

AmadeusPayloads ==
    {AmadeusOffer, AmadeusOneStop, AmadeusOwnStops, AmadeusNoSegments,
     Without(AmadeusOffer, "price"),
     [AmadeusOffer EXCEPT !.price = [total |-> NotANumber, currency |-> "JPY"]],
     [AmadeusOffer EXCEPT !.itineraries = <<>>],
     Without(Without(AmadeusNoSegments, "validatingAirlineCodes"), "id")}

EnaFlightData ==
    [id |-> <<"ENA_", 1, <<"N", "H", "0", "1", "5">>>>, airline |-> NH,
     flight_number |-> <<"0", "1", "5">>,
     departure_time |-> 430, arrival_time |-> 515, price |-> 12000,
     origin |-> HND, destination |-> ITM, date |-> "2026-03-03"]

EnaPayloads ==
    {build_amadeus_format(EnaFlightData, "2026-03-03"),
     Without(build_amadeus_format(EnaFlightData, "2026-03-03"), "price"),
     build_amadeus_format(EnaFlightData, BadDate),
     \* departs 23:00, arrives 00:30
     build_amadeus_format([EnaFlightData EXCEPT !.departure_time = 1380,
                                                !.arrival_time = 30],
                          "2026-03-03")}

SerpFlight ==
    [departure_airport |-> [id |-> HND], arrival_airport |-> [id |-> ITM],
     departure_time |-> At("2026-03-03", 430),
     arrival_time |-> At("2026-03-03", 515),
     airline_code |-> NH, flight_number |-> <<"N", "H", "1", "5">>,
     duration |-> 85]

SerpOffer ==
    [_source |-> "serpapi", flights |-> <<SerpFlight>>, total_duration |-> 85,
     price |-> 14000, token |-> <<"token", 0, <<"t", "1">>>>]

SerpOneStop ==
    [SerpOffer EXCEPT
        !.flights = <<SerpFlight, Without(SerpFlight, "departure_time")>>,
        !.total_duration = 240, !.price = 9000, !.token = <<"token", 0, <<"t", "2">>>>]

SerpPayloads ==
    {SerpOffer, SerpOneStop,
     Without(SerpOffer, "price"),
     Without(Without(SerpOffer, "price"), "token"),
     [SerpOffer EXCEPT !.price = NotANumber],
     Without(SerpOffer, "flights"),
     [SerpOffer EXCEPT !.flights = <<Without(SerpFlight, "departure_airport")>>],
     [SerpOffer EXCEPT
         !.flights = <<[SerpFlight EXCEPT
                           !.arrival_time = At("2026-03-03", BadTime)]>>]}

\* the shape scrape_ana_flights emits for a parsed row
AnaRowOffer ==
    [source |-> "ANA_Official", id |-> <<"ANA_", 430, <<"A", "N", "A", "0", "1", "5">>>>,
     carrier_main |-> "ANA", price |-> 12000, currency |-> "JPY",
     segments |-> <<[departure_iatacode |-> HND, arrival_iatacode |-> ITM,
                     departure_time |-> At("2026-03-03", 430),
                     arrival_time |-> At("2026-03-03", 515),
                     flight_number |-> <<"A", "N", "A", "0", "1", "5">>]>>,
     fare_type |-> "Value"]

RawPayloads ==
    AmadeusPayloads \cup EnaPayloads \cup SerpPayloads
        \cup {AnaRowOffer, AString, None}

Batches == UNION {[1..n -> RawPayloads] : n \in 0..MaxBatch}

-----------------------------------------------------------------------------
(* core/ranking.py.  Scores are kept in thousandths, so that price/1000 and
   duration/10 stay whole numbers. *)

MutStartFromOldScore(offer) == offer.score

\* score = 1000.0
StartScore(offer) == 1000000

\* prefs is a dict: prefs.get('carrier') is None unless the key is there
calculate_score(offer, prefs) ==
    LET price_penalty == offer.price
        duration_penalty == offer.total_duration_minutes * 100
        stops_penalty == offer.stops * 50000
        bonus == "carrier" \in DOMAIN prefs
                    /\ prefs.carrier # <<>>
                    /\ offer.carrier_main = prefs.carrier
        base == [price |-> price_penalty, duration |-> duration_penalty,
                 stops |-> stops_penalty]
    IN  [offer EXCEPT
            !.score = StartScore(offer) - price_penalty - duration_penalty
                        - stops_penalty + (IF bonus THEN 100000 ELSE 0),
            !.score_breakdown =
                IF bonus THEN With(base, "carrier", 100000) ELSE base]

RECURSIVE MutInsertBeforeEquals(_, _)
MutInsertBeforeEquals(sorted, offer) ==
    IF sorted = <<>> THEN <<offer>>
    ELSE IF Head(sorted).score > offer.score
         THEN <<Head(sorted)>> \o MutInsertBeforeEquals(Tail(sorted), offer)
    ELSE <<offer>> \o sorted

\* sorted(..., reverse=True) is stable: an element goes after every element
\* whose score is at least its own
RECURSIVE InsertByScore(_, _)
InsertByScore(sorted, offer) ==
    IF sorted = <<>> THEN <<offer>>
    ELSE IF Head(sorted).score >= offer.score
         THEN <<Head(sorted)>> \o InsertByScore(Tail(sorted), offer)
    ELSE <<offer>> \o sorted

RECURSIVE SortedByScore(_)
SortedByScore(offers) ==
    IF offers = <<>> THEN <<>>
    ELSE InsertByScore(SortedByScore(SubSeq(offers, 1, Len(offers) - 1)),
                       offers[Len(offers)])

rank_offers(offers, prefs) ==
    SortedByScore([i \in 1..Len(offers) |-> calculate_score(offers[i], prefs)])

-----------------------------------------------------------------------------
(* core/cache.py: SimpleCache.  The store maps a key to (value, expire_at);
   each method runs under the lock from its first to its last statement. *)

\* ttl_seconds=300 of the cache.set call of search_flights
CACHE_TTL == 300

MutGetKeepsAtExpiry(st, key, t) ==
    IF key \in DOMAIN st /\ t <= st[key].expire_at THEN st[key].value ELSE None

cache_get_value(st, key, t) ==
    IF key \in DOMAIN st /\ t < st[key].expire_at THEN st[key].value ELSE None

cache_get_hit(st, key, t) == key \in DOMAIN st /\ t < st[key].expire_at

MutGetNeverDeletes(st, key, t) == st

cache_get_store(st, key, t) ==
    IF key \in DOMAIN st /\ ~(t < st[key].expire_at) THEN Without(st, key)
    ELSE st

MutSetIgnoresTtl(st, key, value, ttl_seconds, t) ==
    With(st, key, [value |-> value, expire_at |-> t])

cache_set(st, key, value, ttl_seconds, t) ==
    With(st, key, [value |-> value, expire_at |-> t + ttl_seconds])

cache_clear(st) == EmptyDict

-----------------------------------------------------------------------------
(* skills/search_offers.py: resolve_code *)

Upper(c) ==
    CASE c = "h" -> "H" [] c = "n" -> "N" [] c = "d" -> "D"
      [] c = "i" -> "I" [] c = "t" -> "T" [] c = "m" -> "M"
      [] c = "q" -> "Q"
      [] OTHER -> c

RECURSIVE LStrip(_)
LStrip(s) == IF s # <<>> /\ Head(s) = " " THEN LStrip(Tail(s)) ELSE s

RECURSIVE RStrip(_)
RStrip(s) ==
    IF s # <<>> /\ s[Len(s)] = " " THEN RStrip(SubSeq(s, 1, Len(s) - 1)) ELSE s

\* input_str.strip().upper()
CleanStr(input_str) ==
    LET stripped == RStrip(LStrip(input_str))
    IN  [i \in 1..Len(stripped) |-> Upper(stripped[i])]

TYO == <<"T", "Y", "O">>
TOKYO == <<"T", "O", "K", "Y", "O">>
QQQ == <<"Q", "Q", "Q">>

\* the entries of CITY_MAP the modelled inputs can meet
CITY_MAP == (HND :> HND) @@ (ITM :> ITM) @@ (TYO :> TYO) @@ (TOKYO :> TYO)

\* What amadeus.reference_data.locations.get does for one call: it raises,
\* returns no data, or returns data whose first entry has the given code.
LookupOutcomes == {[kind |-> "raise"], [kind |-> "empty"],
                   [kind |-> "data", iataCode |-> ITM],
                   [kind |-> "data", iataCode |-> QQQ]}

MutNeverRemembered(city_cache, clean_str) == FALSE

\* `if clean_str in DYNAMIC_CITY_CACHE:`
Remembered(city_cache, clean_str) == clean_str \in DOMAIN city_cache

MutRememberNothing(city_cache, clean_str, found_code) == city_cache

\* DYNAMIC_CITY_CACHE[clean_str] = found_code
Remember(city_cache, clean_str, found_code) ==
    With(city_cache, clean_str, found_code)

\* [code, cache, calls]: the return value, DYNAMIC_CITY_CACHE afterwards and
\* the number of external lookups made
resolve_code(input_str, city_cache, client, lookup) ==
    IF input_str = <<>>
    THEN [code |-> <<>>, cache |-> city_cache, calls |-> 0]
    ELSE LET clean_str == CleanStr(input_str)
         IN  IF clean_str \in DOMAIN CITY_MAP
             THEN [code |-> CITY_MAP[clean_str], cache |-> city_cache,
                   calls |-> 0]
             ELSE IF Remembered(city_cache, clean_str)
             THEN [code |-> city_cache[clean_str], cache |-> city_cache,
                   calls |-> 0]
             ELSE IF client /\ lookup.kind = "data"
             THEN [code |-> lookup.iataCode,
                   cache |-> Remember(city_cache, clean_str, lookup.iataCode),
                   calls |-> 1]
             ELSE [code |-> clean_str, cache |-> city_cache,
                   calls |-> IF client THEN 1 ELSE 0]

-----------------------------------------------------------------------------
(* core/ai.py.  What the model answers is the environment's choice: a reply
   is [kind, fence, items].  kind "error" is the text explain_with_openai /
   explain_with_gemini return on a provider failure or a missing key, "prose"
   any other text that is no JSON, "array"/"object"/"number" a JSON text of
   that type.  fence tells whether the text arrives inside ``` markers. *)

MandatoryFields == {"flight_number", "departure_time", "arrival_time", "price"}

\* the three re.sub calls that remove the code-fence markers
StripFence(reply) == [reply EXCEPT !.fence = "none"]

\* json.loads raises on anything that is not a bare JSON text
json_loads_raises(reply) ==
    reply.kind \notin {"array", "object", "number"} \/ reply.fence # "none"

\* all(k in f for k in [...]) on one element of the parsed array:
\* "raise" for a number or null (TypeError), which abandons the whole parse
ValidateElement(f) ==
    IF IsDict(f)
    THEN IF MandatoryFields \subseteq DOMAIN f THEN "valid" ELSE "drop"
    ELSE IF f.pytype \in {"int", "NoneType"} THEN "raise" ELSE "drop"

RECURSIVE ValidFlightsFrom(_, _, _, _, _, _)
ValidFlightsFrom(flights, idx, origin, dest, date, valid_flights) ==
    IF idx > Len(flights) THEN valid_flights
    ELSE LET f == flights[idx]
             filled == With(With(With(With(f, "origin", origin),
                                      "destination", dest),
                                 "date", date),
                            \* f"AI_{idx}_{f['flight_number']}", idx from 0
                            "id", <<"AI_", idx - 1, f.flight_number>>)
         IN  ValidFlightsFrom(flights, idx + 1, origin, dest, date,
                 IF ValidateElement(f) = "valid"
                 THEN Append(valid_flights, filled) ELSE valid_flights)

extract_flights_from_html(reply, origin, dest, date) ==
    LET text == StripFence(reply)
    IN  IF json_loads_raises(text) THEN <<>>
        \* enumerate() of a number raises; of an object it walks the keys,
        \* none of which holds the four names
        ELSE IF text.kind # "array" THEN <<>>
        ELSE IF \E i \in 1..Len(text.items) :
                    ValidateElement(text.items[i]) = "raise"
             THEN <<>>
        ELSE ValidFlightsFrom(text.items, 1, origin, dest, date, <<>>)

\* ai.py imports google.generativeai, openai, settings, Offer and logging at
\* module level; `import re` stands only inside extract_flights_from_html, so
\* the name re is unbound in every other function of the module
ReBoundAtModuleLevel == FALSE

\* The re.sub calls stand inside the try: the NameError is caught and the
\* function returns None whatever the model answered.
generate_json_selector_fix(heal_reply) ==
    IF ~ReBoundAtModuleLevel THEN None
    ELSE IF json_loads_raises(StripFence(heal_reply))
            \/ heal_reply.kind # "object"
    THEN None
    ELSE heal_reply.items

\* `if suggestion:` None and {} are falsy
Truthy(v) == IsDict(v) /\ DOMAIN v # {}

-----------------------------------------------------------------------------
(* The files of the working directory: a function from the names of the
   files that exist to their content, [kind |-> "json", value |-> ...] or
   [kind |-> "garbage"] for a text json.load rejects. *)

EnaConfigPath == "scraper_config.json"
EnaSuggestionPath == "scraper_config_suggestion.json"
AnaConfigPath == "scraper_ana_config.json"
AnaSuggestionPath == "scraper_ana_config_suggestion.json"

Json(v) == [kind |-> "json", value |-> v]

\* with open(path, "w") as f: json.dump(value, f)
WriteJson(files, path, value) == With(files, path, Json(value))

EnaDefaultSelectors ==
    [container |-> "a#add_cart",
     flight_number |-> "li:nth-child(1) p:nth-child(2)",
     departure_time |-> "li:nth-child(2) p:first-child",
     arrival_time |-> "li:nth-child(4) p:first-child",
     price |-> "li:nth-child(7) p"]

MutLoadsSuggestion(files, config_path, defaults) ==
    IF EnaSuggestionPath \in DOMAIN files
       /\ files[EnaSuggestionPath].kind = "json"
    THEN [k \in DOMAIN defaults |->
             IF k \in DOMAIN files[EnaSuggestionPath].value
             THEN files[EnaSuggestionPath].value[k] ELSE defaults[k]]
    ELSE defaults

\* selectors.update(saved_config.get("selectors", {})) inside try/except
LoadSelectors(files, config_path, defaults) ==
    IF config_path \notin DOMAIN files THEN defaults
    ELSE IF files[config_path].kind # "json" THEN defaults
    ELSE IF "selectors" \notin DOMAIN files[config_path].value THEN defaults
    ELSE LET override == files[config_path].value.selectors
         IN  [k \in (DOMAIN defaults) \cup (DOMAIN override) |->
                 IF k \in DOMAIN override THEN override[k] ELSE defaults[k]]

-----------------------------------------------------------------------------
(* skills/scrape_ena.py: scrape_ena_flights.  The site is the environment's
   choice, env: launch ("ok" or "raise", for the browser launch and
   page.goto), marker (whether a#add_cart shows up within the timeout),
   present (the container selectors that match something), rows (what a
   matching container selector returns; a row maps each selector that matches
   inside it to the element's text), ai_reply and heal_reply (what the model
   answers to the two prompts), write_ok (whether the suggestion file can be
   opened for writing). *)

EnaWarnHealed == "Selectors updated by AI! Check Settings."
NoWarning == "None"

\* float(price_text.replace(',', '').replace('円', '').strip()), 0 if empty
EnaRowRaises(row, selectors) ==
    \/ row[selectors.price] = NotANumber
    \/ ~IsTimeOfDay(row[selectors.departure_time])
    \/ ~IsTimeOfDay(row[selectors.arrival_time])

EnaRowMissing(row, selectors) ==
    ~({selectors.flight_number, selectors.departure_time,
       selectors.arrival_time, selectors.price} \subseteq DOMAIN row)

EnaRowFlightData(idx, row, selectors, origin, dest, date) ==
    LET flight_number == row[selectors.flight_number]
    IN  [id |-> <<"ENA_", idx, flight_number>>,
         airline |-> IF Len(flight_number) >= 2
                     THEN SubSeq(flight_number, 1, 2) ELSE NH,
         flight_number |-> IF Len(flight_number) > 2
                           THEN SubSeq(flight_number, 3, Len(flight_number))
                           ELSE flight_number,
         departure_time |-> row[selectors.departure_time],
         arrival_time |-> row[selectors.arrival_time],
         price |-> row[selectors.price],
         origin |-> origin, destination |-> dest, date |-> date]

\* the for loop over flight_links; idx counts from 1 as idx+1 does
RECURSIVE EnaParseRows(_, _, _, _, _, _, _)
EnaParseRows(rows, idx, selectors, origin, dest, date, results) ==
    IF idx > Len(rows) THEN results
    ELSE EnaParseRows(rows, idx + 1, selectors, origin, dest, date,
            IF EnaRowMissing(rows[idx], selectors) THEN results
            ELSE IF EnaRowRaises(rows[idx], selectors) THEN results
            ELSE Append(results,
                    build_amadeus_format(
                        EnaRowFlightData(idx, rows[idx], selectors,
                                         origin, dest, date),
                        date)))

\* for f in ai_results: results.append(build_amadeus_format(f, date)), up to
\* the first record build_amadeus_format raises on
RECURSIVE EnaConvertAi(_, _, _, _)
EnaConvertAi(ai_results, i, date, results) ==
    IF i > Len(ai_results) THEN results
    ELSE IF build_amadeus_format_raises(ai_results[i]) THEN results
    ELSE EnaConvertAi(ai_results, i + 1, date,
                      Append(results, build_amadeus_format(ai_results[i], date)))

\* the outcome of an attempt that an exception or a timeout ended
Aborted(outcome) == [outcome EXCEPT !.aborted = TRUE]

EnaOutcome(returns, results, warning, files, det, ai_inv, ai_n, heal_inv, wrote) ==
    [site |-> "ENA", returns |-> returns, results |-> results,
     warning |-> warning, files |-> files, det_rows |-> det,
     ai_invoked |-> ai_inv, ai_records |-> ai_n, healer_invoked |-> heal_inv,
     suggestion_written |-> wrote, aborted |-> FALSE]

MutHealWritesActiveConfig(files, suggestion_json, write_ok) ==
    IF write_ok THEN WriteJson(files, EnaConfigPath, suggestion_json) ELSE files

\* the suggestion file after the self-healing block of the ENA scraper
EnaHealFiles(files, suggestion_json, write_ok) ==
    IF Truthy(suggestion_json) /\ write_ok
    THEN WriteJson(files, EnaSuggestionPath, suggestion_json)
    ELSE files

\* _run_scraper from page.query_selector_all on: parsed is what the row
\* loop collects, ai_results and suggestion_json what the two AI calls
\* return (made only on the fallback path)
EnaExtract(date, files, env, flight_links, parsed, ai_results, suggestion_json) ==
    IF flight_links = <<>> /\ ai_results # <<>>
    THEN EnaOutcome("tuple", EnaConvertAi(ai_results, 1, date, <<>>),
                    IF Truthy(suggestion_json) /\ env.write_ok
                    THEN EnaWarnHealed ELSE NoWarning,
                    EnaHealFiles(files, suggestion_json, env.write_ok),
                    0, TRUE, Len(ai_results), TRUE,
                    Truthy(suggestion_json) /\ env.write_ok)
    ELSE EnaOutcome("tuple", parsed, NoWarning, files, Len(parsed),
                    flight_links = <<>>, 0, FALSE, FALSE)

scrape_ena_flights(origin, dest, date, files, env) ==
    \* the outer except logs and leaves warning_msg = None
    IF env.launch = "raise"
    THEN Aborted(EnaOutcome("tuple", <<>>, NoWarning, files, 0, FALSE, 0,
                            FALSE, FALSE))
    ELSE IF ~env.marker
    \* `return results`: the bare list, not the pair
    THEN Aborted(EnaOutcome("list", <<>>, NoWarning, files, 0, FALSE, 0,
                            FALSE, FALSE))
    ELSE
    LET selectors == LoadSelectors(files, EnaConfigPath, EnaDefaultSelectors)
        flight_links == IF selectors.container \in env.present
                        THEN env.rows ELSE <<>>
    IN  EnaExtract(date, files, env, flight_links,
                   EnaParseRows(flight_links, 1, selectors, origin, dest, date,
                                <<>>),
                   extract_flights_from_html(env.ai_reply, origin, dest, date),
                   generate_json_selector_fix(env.heal_reply))

-----------------------------------------------------------------------------
(* skills/scrape_ana.py: scrape_ana_flights.  The site is the environment's
   choice, env: nav, date_visible, marker (whether page.goto, the calendar
   cell and the results marker go through), airports (what each of the two
   select_airport calls meets: "clicked", "not found" or "raise"), rows (the <tr> elements of the results page), ai_reply,
   heal_reply, write_ok.  A row is [raises, ana, header, times, flight,
   prices]: whether inner_text() raises, whether the text holds "ANA" and the
   header word, the HH:MM tokens, the ANA\s?\d{2,4} match without its blank
   (<<>> when there is none) and the comma-grouped numbers of the text. *)

AnaWarnHealed == "ANA Scraper: Selectors updated by AI! Check Settings."
AnaWarnError == "Scraper Error: ..."
AnaWarnFailed == "ANA Scraper Failed: ..."

\* "Filter for real prices (usually > 5000)"
MinPlausiblePrice == 5000

UnknownFlight == <<"A", "N", "A", " ", "?", "?", "?">>

ValidPrices(row) == {row.prices[i] : i \in {j \in 1..Len(row.prices) :
                                              row.prices[j] > MinPlausiblePrice}}

MinOf(S) == CHOOSE x \in S : \A y \in S : x <= y
MaxOf(S) == CHOOSE x \in S : \A y \in S : x >= y

MatchedTime(time_range, dep_time) ==
    LET dep_h == dep_time \div 60
    IN  \/ time_range = "morning" /\ dep_h < 12
        \/ time_range = "afternoon" /\ 12 <= dep_h /\ dep_h < 18
        \/ time_range = "evening" /\ dep_h >= 18

\* the `continue` statements of the row loop
AnaRowSkipped(row, time_range) ==
    \/ row.raises
    \/ ~row.ana \/ row.header
    \/ Len(row.times) < 2
    \/ ValidPrices(row) = {}
    \/ time_range # "None" /\ ~MatchedTime(time_range, row.times[1])

AnaRowOfferOf(row, origin, dest, date, flexible_ticket) ==
    LET dep_time == row.times[1]
        arr_time == row.times[2]
        flight_num == IF row.flight # <<>> THEN row.flight ELSE UnknownFlight
    IN  [source |-> "ANA_Official",
         id |-> <<"ANA_", dep_time, flight_num>>,
         carrier_main |-> "ANA",
         price |-> IF flexible_ticket THEN MaxOf(ValidPrices(row))
                   ELSE MinOf(ValidPrices(row)),
         currency |-> "JPY",
         segments |-> <<[departure_iatacode |-> origin,
                         arrival_iatacode |-> dest,
                         departure_time |-> At(date, dep_time),
                         arrival_time |-> At(date, arr_time),
                         flight_number |-> flight_num]>>,
         fare_type |-> IF flexible_ticket THEN "Flex" ELSE "Value"]

RECURSIVE AnaParseRows(_, _, _, _, _, _, _, _)
AnaParseRows(rows, i, origin, dest, date, time_range, flexible_ticket, results) ==
    IF i > Len(rows) THEN results
    ELSE AnaParseRows(rows, i + 1, origin, dest, date, time_range,
                      flexible_ticket,
            IF AnaRowSkipped(rows[i], time_range) THEN results
            ELSE Append(results,
                        AnaRowOfferOf(rows[i], origin, dest, date,
                                      flexible_ticket)))

AnaOutcome(returns, results, warning, files, det, ai_inv, ai_n, heal_inv, wrote) ==
    [site |-> "ANA", returns |-> returns, results |-> results,
     warning |-> warning, files |-> files, det_rows |-> det,
     ai_invoked |-> ai_inv, ai_records |-> ai_n, healer_invoked |-> heal_inv,
     suggestion_written |-> wrote, aborted |-> FALSE]

\* what the fallback block leaves in results for the accepted AI records:
\* the loop over ai_results holds only `pass`
AnaConvertAi(ai_results, results) == results

\* the suggestion file after the "Generate Config Fix" block
AnaHealFiles(files, suggestion, write_ok) ==
    IF Truthy(suggestion) /\ write_ok
    THEN WriteJson(files, AnaSuggestionPath, suggestion)
    ELSE files

\* no scrape was made
NoScrape ==
    [site |-> "none", returns |-> "none", results |-> <<>>,
     warning |-> NoWarning, files |-> EmptyDict, det_rows |-> 0,
     ai_invoked |-> FALSE, ai_records |-> 0, healer_invoked |-> FALSE,
     suggestion_written |-> FALSE, aborted |-> FALSE]

\* the scraper from the row loop on: results is what the loop collects,
\* ai_results and suggestion what the two AI calls return (made only when
\* results is empty)
AnaExtract(files, env, results, ai_results, suggestion) ==
    IF results # <<>>
    THEN AnaOutcome("tuple", results, NoWarning, files, Len(results),
                    FALSE, 0, FALSE, FALSE)
    ELSE IF ai_results # <<>>
    THEN AnaOutcome("tuple", AnaConvertAi(ai_results, results),
                    IF Truthy(suggestion) /\ env.write_ok
                    THEN AnaWarnHealed ELSE NoWarning,
                    AnaHealFiles(files, suggestion, env.write_ok),
                    0, TRUE, Len(ai_results), TRUE,
                    Truthy(suggestion) /\ env.write_ok)
    ELSE AnaOutcome("tuple", results, NoWarning, files, 0, TRUE, 0,
                    FALSE, FALSE)

\* select_airport raises when a Playwright call in it does; the script's
\* answer 'not found' is logged, `clicked = True` follows and nothing is raised
AirportRaises(pick) == pick = "raise"
AirportSelected(pick) == pick = "clicked"

MutDateAlwaysSelected(env) == TRUE

\* date_selected after the loop over the matching calendar buttons
DateSelected(env) == env.date_visible

\* how far the attempt gets on the search form, steps 1 to 5
AnaForm(env) ==
    LET to_dest == env.nav = "ok" /\ ~AirportRaises(env.airports.origin)
        to_date == to_dest /\ ~AirportRaises(env.airports.dest)
    IN  [origin_selected |-> env.nav = "ok"
                             /\ AirportSelected(env.airports.origin),
         dest_selected |-> to_dest /\ AirportSelected(env.airports.dest),
         calendar_opened |-> to_date,
         date_clicked |-> to_date /\ env.date_visible,
         submitted |-> to_date /\ DateSelected(env),
         loaded |-> to_date /\ DateSelected(env) /\ env.marker]

scrape_ana_flights(origin, dest, date, time_range, flexible_ticket, files, env) ==
    \* datetime.strptime(date, "%Y-%m-%d") stands before the try
    IF date \notin Dates
    THEN Aborted(AnaOutcome("raise", <<>>, NoWarning, files, 0, FALSE, 0,
                            FALSE, FALSE))
    ELSE IF ~AnaForm(env).loaded
    THEN Aborted(AnaOutcome("tuple", <<>>, AnaWarnError, files, 0, FALSE, 0,
                            FALSE, FALSE))
    ELSE AnaExtract(files, env,
                    AnaParseRows(env.rows, 1, origin, dest, date, time_range,
                                 flexible_ticket, <<>>),
                    extract_flights_from_html(env.ai_reply, origin, dest, date),
                    generate_json_selector_fix(env.heal_reply))

\* The browser of an attempt.  browser.close() is called where the code
\* calls it; on every other way out of `with sync_playwright() as p:` the
\* exit of the with statement stops Playwright, which closes the browser it
\* launched.  waited is the time.sleep before the close, in seconds.
Session(opened, closed_by, waited) ==
    [opened |-> opened, closed |-> opened, closed_by |-> closed_by,
     waited |-> waited]

NoSession == Session(FALSE, "none", 0)

\* scrape_ana.py: `if auto_close: browser.close()` is the last statement of
\* the with block and nothing sleeps when auto_close is false
AnaSession(date, env, auto_close) ==
    IF date \notin Dates THEN NoSession
    ELSE IF AnaForm(env).loaded /\ auto_close
    THEN Session(TRUE, "browser.close()", 0)
    ELSE Session(TRUE, "with", 0)

\* time.sleep(60) of the branch `else` of `if auto_close:`
ENA_GRACE == 60

\* time.sleep(3) under `if not headless:`
ENA_SHOW == 3

\* scrape_ena.py: the marker timeout closes and returns; the fallback return
\* closes under auto_close; the end of the row loop sleeps and closes; an
\* exception leaves through the with statement
EnaSession(outcome, env, headless, auto_close) ==
    IF env.launch = "raise" THEN NoSession
    ELSE IF ~env.marker THEN Session(TRUE, "browser.close()", 0)
    ELSE IF outcome.ai_invoked /\ outcome.ai_records > 0
    THEN IF Len(outcome.results) < outcome.ai_records
         THEN Session(TRUE, "with", 0)
         ELSE Session(TRUE, IF auto_close THEN "browser.close()" ELSE "with", 0)
    ELSE Session(TRUE, "browser.close()",
                 (IF headless THEN 0 ELSE ENA_SHOW)
                     + (IF auto_close THEN 0 ELSE ENA_GRACE))

-----------------------------------------------------------------------------
(* skills/search_offers.py: search_offers.  world is the environment's
   choice for one call: lookup_o and lookup_d (the two location lookups),
   serp (what GoogleSearch(params).get_dict() does) and site (the ANA site,
   as above). *)

\* flight['_source'] = 'serpapi'; results.append(flight), up to the first
\* element that takes no item assignment (the TypeError ends the try block)
RECURSIVE TagSerp(_, _, _)
TagSerp(flight_lists, i, results) ==
    IF i > Len(flight_lists) THEN results
    ELSE IF ~IsDict(flight_lists[i]) THEN results
    ELSE TagSerp(flight_lists, i + 1,
                 Append(results, With(flight_lists[i], "_source", "serpapi")))

SerpFlightLists(data) ==
    (IF "best_flights" \in DOMAIN data THEN data.best_flights ELSE <<>>)
        \o (IF "other_flights" \in DOMAIN data THEN data.other_flights ELSE <<>>)

\* search_offers once both codes are resolved: scrape is what
\* scrape_ana_flights does (called in scraper mode only), city_cache and
\* lookups what the two resolve_code calls left
SearchResolved(search_mode, files, conf, world, city_cache, lookups, scrape) ==
    IF search_mode = "scraper"
    THEN [city_cache |-> city_cache, lookups |-> lookups,
          results |-> scrape.results,
          warning |-> IF scrape.returns = "raise" THEN AnaWarnFailed
                      ELSE scrape.warning,
          files |-> scrape.files, scraped |-> TRUE, scrape |-> scrape,
          source_calls |-> 0,
          source_failed |-> scrape.returns = "raise" \/ scrape.aborted]
    ELSE [city_cache |-> city_cache, lookups |-> lookups,
          results |-> IF conf.SERPAPI_KEY /\ world.serp.kind = "data"
                      THEN TagSerp(SerpFlightLists(world.serp.data), 1, <<>>)
                      ELSE <<>>,
          warning |-> NoWarning,
          files |-> files, scraped |-> FALSE, scrape |-> NoScrape,
          source_calls |-> IF conf.SERPAPI_KEY THEN 1 ELSE 0,
          \* no key, or the except around the SerpApi call was entered
          \* before any flight was collected
          source_failed |-> ~conf.SERPAPI_KEY \/ world.serp.kind = "raise"]

search_offers(origin, dest, date, search_mode, files, city_cache, conf, world) ==
    LET ro == resolve_code(origin, city_cache, conf.amadeus, world.lookup_o)
        rd == resolve_code(dest, ro.cache, conf.amadeus, world.lookup_d)
    IN  SearchResolved(search_mode, files, conf, world, rd.cache,
                       ro.calls + rd.calls,
                       scrape_ana_flights(ro.code, rd.code, date, "None", FALSE,
                                          files, world.site))

-----------------------------------------------------------------------------
(* main.py: search_flights *)

\* hashlib.md5(f"{origin}-{destination}-{date}-{adults}"): the formatted text
generate_cache_key(request) ==
    request.origin \o <<"-">> \o request.destination \o <<"-", request.date, "-">>
        \o <<ToString(request.adults)>>

MutCacheInEveryMode(request) == TRUE

\* `if request.searchMode != "scraper":` before cache.get and cache.set
UsesCache(request) == request.searchMode # "scraper"

\* `if cached_result:` an empty list is falsy, like None
CacheHit(st, key, t) ==
    cache_get_hit(st, key, t) /\ cache_get_value(st, key, t) # <<>>

MutNeverReturnsEarly(raw_offers_result) == FALSE

\* if not raw_offers_result: return before normalize, rank and cache.set
NothingFound(raw_offers_result) == raw_offers_result = <<>>

\* [response, store, files, city_cache, ...] of one request handled at time t
\* found is what search_offers returns, called on a cache miss only
Respond(request, st, files, city_cache, t, found) ==
    LET cache_key == generate_cache_key(request)
        api == UsesCache(request)
        st1 == IF api THEN cache_get_store(st, cache_key, t) ELSE st
        done == normalize_offers(found.results)
        ranked_offers == rank_offers(done.offers, EmptyDict)
        untouched == [store |-> st1, files |-> files, city_cache |-> city_cache,
                      searched |-> FALSE]
        after == [store |-> st1, files |-> found.files,
                  city_cache |-> found.city_cache, searched |-> TRUE,
                  found |-> found]
    IN  IF api /\ CacheHit(st, cache_key, t)
        THEN untouched @@
             [response |-> [status |-> 200,
                            offers |-> cache_get_value(st, cache_key, t),
                            cached |-> "True", warning |-> "absent"]]
        ELSE IF NothingFound(found.results)
        THEN after @@
             [response |-> [status |-> 200, offers |-> <<>>,
                            cached |-> "absent", warning |-> found.warning]]
        ELSE IF done.raised
        THEN after @@
             [response |-> [status |-> 500, offers |-> <<>>,
                            cached |-> "absent", warning |-> "absent"]]
        ELSE [after EXCEPT
                 !.store = IF api
                           THEN cache_set(st1, cache_key, ranked_offers,
                                          CACHE_TTL, t)
                           ELSE st1] @@
             [response |-> [status |-> 200, offers |-> ranked_offers,
                            cached |-> "False", warning |-> found.warning]]

search_flights(request, st, files, city_cache, conf, world, t) ==
    Respond(request, st, files, city_cache, t,
            search_offers(request.origin, request.destination, request.date,
                          request.searchMode, files, city_cache, conf, world))

\* update_scraper_config.  io is the environment's choice: "ok",
\* "open_fails" (the configuration cannot be opened for writing) or
\* "remove_fails" (os.remove raises after the configuration was written).
update_scraper_config(new_config, files, io, t) ==
    LET stamped == With(new_config, "last_updated", t)
        written == WriteJson(files, EnaConfigPath, stamped)
    IN  IF io = "open_fails" THEN [status |-> "error", files |-> files]
        ELSE IF EnaSuggestionPath \in DOMAIN written
        THEN IF io = "remove_fails"
             THEN [status |-> "error", files |-> written]
             ELSE [status |-> "success",
                   files |-> Without(written, EnaSuggestionPath)]
        ELSE [status |-> "success", files |-> written]

-----------------------------------------------------------------------------
(* The environment: what the requests, the sites, the model and the flight
   API can be *)

LowerHnd == <<" ", "h", "n", "d">>

Request(o, d, date, mode) ==
    [origin |-> o, destination |-> d, date |-> date, adults |-> 1,
     searchMode |-> mode]

ApiRequests ==
    {Request(o, ITM, "2026-03-03", "api") : o \in {HND, LowerHnd}}

ScraperRequests ==
    {Request(o, ITM, "2026-03-03", "scraper") : o \in {HND, LowerHnd}}
        \cup {Request(HND, ITM, BadDate, "scraper")}

AiRecord ==
    [airline |-> NH, flight_number |-> <<"1", "2", "3">>,
     departure_time |-> 600, arrival_time |-> 690, price |-> 15000]

Reply(kind, fence, items) == [kind |-> kind, fence |-> fence, items |-> items]

AiReplies ==
    {Reply("error", "none", <<>>),
     Reply("array", "none", <<>>),
     Reply("array", "json", <<AiRecord>>),
     Reply("array", "none", <<AiRecord, Without(AiRecord, "price")>>),
     Reply("array", "none", <<[AiRecord EXCEPT !.arrival_time = 30],
                              Without(AiRecord, "airline")>>),
     Reply("array", "plain", <<AiRecord, [pytype |-> "int"]>>),
     Reply("object", "none", <<>>)}

NewSelectors ==
    [container |-> "li.flight-row", flight_number |-> "span.fn",
     departure_time |-> "span.dep", arrival_time |-> "span.arr",
     price |-> "span.price"]

\* the model's answer to the healer's prompt and whether the suggestion file
\* can be written
Healing == [heal_reply |-> Reply("object", "json", NewSelectors), write_ok |-> TRUE]

HealCases ==
    {Healing,
     [heal_reply |-> Reply("object", "none", NewSelectors), write_ok |-> FALSE],
     [heal_reply |-> Reply("prose", "none", EmptyDict), write_ok |-> TRUE]}

\* the healer is reached only after the extraction prompt gave records, so
\* its answer is varied for such a reply only
Extracting == Reply("array", "json", <<AiRecord>>)

AnaRow(ana, header, times, flight, prices) ==
    [raises |-> FALSE, ana |-> ana, header |-> header, times |-> times,
     flight |-> flight, prices |-> prices]

Ana015 == AnaRow(TRUE, FALSE, <<430, 515>>, <<"A", "N", "A", "0", "1", "5">>,
                 <<12000, 34000>>)
Ana037 == AnaRow(TRUE, FALSE, <<1110, 1185>>, <<"A", "N", "A", "3", "7">>,
                 <<9800>>)

AnaPages ==
    {<<>>,
     <<AnaRow(TRUE, TRUE, <<>>, <<>>, <<>>)>>,
     <<Ana015>>,
     <<Ana015, Ana037>>,
     <<AnaRow(TRUE, FALSE, <<430>>, <<>>, <<12000>>), Ana037>>,
     <<AnaRow(TRUE, FALSE, <<430, 515>>, <<>>, <<12000>>), Ana037>>,
     <<[Ana015 EXCEPT !.raises = TRUE],
       AnaRow(TRUE, FALSE, <<430, 515>>, <<>>, <<3000>>)>>}

Picked == [origin |-> "clicked", dest |-> "clicked"]

AnaSite(nav, airports, date_visible, marker, rows, ai, heal, write_ok) ==
    [nav |-> nav, airports |-> airports, date_visible |-> date_visible,
     marker |-> marker, rows |-> rows, ai_reply |-> ai, heal_reply |-> heal,
     write_ok |-> write_ok]

AnaSites ==
    {AnaSite("raise", Picked, TRUE, TRUE, <<>>, Reply("error", "none", <<>>),
             Reply("prose", "none", EmptyDict), TRUE),
     AnaSite("ok", [Picked EXCEPT !.origin = "raise"], TRUE, TRUE, <<>>, Reply("error", "none", <<>>),
             Reply("prose", "none", EmptyDict), TRUE),
     AnaSite("ok", Picked, FALSE, TRUE, <<>>, Reply("error", "none", <<>>),
             Reply("prose", "none", EmptyDict), TRUE),
     AnaSite("ok", Picked, TRUE, FALSE, <<>>, Reply("error", "none", <<>>),
             Reply("prose", "none", EmptyDict), TRUE)}
    \cup {AnaSite("ok", Picked, TRUE, TRUE, rows, ai, Healing.heal_reply,
                   Healing.write_ok) : rows \in AnaPages, ai \in AiReplies}
    \cup {AnaSite("ok", airports, TRUE, TRUE, <<Ana015>>,
                   Reply("error", "none", <<>>),
                   Reply("prose", "none", EmptyDict), TRUE) :
            airports \in {[Picked EXCEPT !.origin = "not found"],
                          [Picked EXCEPT !.dest = "not found"]}}
    \cup {AnaSite("ok", [Picked EXCEPT !.dest = "raise"], TRUE, TRUE, <<>>,
                   Reply("error", "none", <<>>),
                   Reply("prose", "none", EmptyDict), TRUE)}
    \cup {AnaSite("ok", Picked, TRUE, TRUE, <<>>, Extracting, h.heal_reply,
                   h.write_ok) : h \in HealCases}

\* the sites a request to /search is run against
SearchSites ==
    {site \in AnaSites :
        /\ site.rows \in {<<>>, <<Ana015>>, <<Ana015, Ana037>>}
        /\ site.ai_reply \in {Reply("error", "none", <<>>),
                              Reply("array", "json", <<AiRecord>>)}
        /\ site.write_ok
        /\ site.airports = Picked
        /\ site.heal_reply.kind = "object"
             \/ site.nav = "raise" \/ ~site.date_visible}

EnaRow(sel, flight_number, dep, arr, price) ==
    (sel.flight_number :> flight_number) @@ (sel.departure_time :> dep)
        @@ (sel.arrival_time :> arr) @@ (sel.price :> price)

EnaPages ==
    {<<EnaRow(EnaDefaultSelectors, <<"N", "H", "0", "1", "5">>, 430, 515, 12000)>>,
     <<EnaRow(EnaDefaultSelectors, <<"N", "H", "0", "1", "5">>, 430, 515,
              NotANumber),
       EnaRow(EnaDefaultSelectors, <<"7">>, 1380, 30, 9000)>>,
     <<EnaRow(NewSelectors, <<"N", "H", "3", "7">>, 600, 690, 15000)>>}

EnaSite(launch, marker, present, rows, ai, heal, write_ok) ==
    [launch |-> launch, marker |-> marker, present |-> present, rows |-> rows,
     ai_reply |-> ai, heal_reply |-> heal, write_ok |-> write_ok]

EnaSites ==
    {EnaSite("raise", TRUE, {}, <<>>, Reply("error", "none", <<>>),
             Reply("prose", "none", EmptyDict), TRUE),
     EnaSite("ok", FALSE, {}, <<>>, Reply("error", "none", <<>>),
             Reply("prose", "none", EmptyDict), TRUE)}
    \* the marker a#add_cart showed up, so that selector matches
    \cup {EnaSite("ok", TRUE, present, rows, ai, Healing.heal_reply,
                   Healing.write_ok) :
            present \in {{"a#add_cart"}, {"a#add_cart", "li.flight-row"}},
            rows \in EnaPages, ai \in AiReplies}
    \cup {EnaSite("ok", TRUE, {"a#add_cart"}, rows, Extracting,
                   h.heal_reply, h.write_ok) :
            rows \in EnaPages, h \in HealCases}

Untagged(payload) == Without(payload, "_source")

SerpData(best, other) == [best_flights |-> best, other_flights |-> other]

SerpOutcomes ==
    {[kind |-> "raise", data |-> EmptyDict],
     [kind |-> "data", data |-> EmptyDict],
     [kind |-> "data", data |-> SerpData(<<Untagged(SerpOffer)>>, <<>>)],
     [kind |-> "data",
      data |-> SerpData(<<Untagged(SerpOneStop)>>, <<Untagged(SerpOffer)>>)],
     [kind |-> "data",
      data |-> [best_flights |->
                   <<Untagged([SerpOffer EXCEPT !.price = NotANumber])>>]],
     [kind |-> "data",
      data |-> SerpData(<<Untagged(SerpOffer), AString>>,
                        <<Untagged(SerpOneStop)>>)]}

\* the outcomes of a location lookup resolve_code makes for input_str; none
\* to choose when it makes no call
\* (the location search requires a keyword: it answers an empty one with an
\* error, which the SDK raises)
LookupsFor(input_str, city_cache, client) ==
    IF input_str # <<>> /\ CleanStr(input_str) \notin DOMAIN CITY_MAP
       /\ CleanStr(input_str) \notin DOMAIN city_cache /\ client
    THEN IF CleanStr(input_str) = <<>> THEN {[kind |-> "raise"]}
         ELSE LookupOutcomes
    ELSE {[kind |-> "unused"]}

\* everything configured, or nothing
Confs == {[amadeus |-> TRUE, SERPAPI_KEY |-> TRUE],
          [amadeus |-> FALSE, SERPAPI_KEY |-> FALSE]}

\* what update_scraper_config can be handed
NewConfigs ==
    {[selectors |-> NewSelectors],
     [selectors |-> [container |-> "li.flight-row"]],
     NewSelectors,
     EmptyDict}

\* The working directory at start-up: files are kept from one run of the
\* service to the next, so any of the four may be there.
InitialFiles ==
    {EmptyDict,
     EnaConfigPath :> Json([selectors |-> [container |-> "li.flight-row"],
                            last_updated |-> 0]),
     EnaConfigPath :> [kind |-> "garbage"],
     (EnaSuggestionPath :> Json(NewSelectors))
         @@ (AnaSuggestionPath :> Json(NewSelectors)),
     (AnaConfigPath :> Json([selectors |-> [row |-> "tr.flight"]]))
         @@ (AnaSuggestionPath :> Json(NewSelectors))}

-----------------------------------------------------------------------------
(* The service: requests to /search, the cache and the clock *)

NoRequest == Request(<<>>, <<>>, "", "none")
NoResponse ==
    [status |-> 0, offers |-> <<>>, cached |-> "absent", warning |-> "absent"]

\* the outcome of a scrape without the files, which are in `disk`
Observed(scrape) == Without(scrape, "files")

Last(op, request, response, scrape, raw, lookups, source_calls, status, prior) ==
    [op |-> op, request |-> request, response |-> response,
     scrape |-> Observed(scrape), raw |-> raw, lookups |-> lookups,
     source_calls |-> source_calls, status |-> status, prior |-> prior,
     source_failed |-> FALSE]

\* What stood under the request's key before the request: the cache entry,
\* and the earlier request with the same key that the source answered (at
\* what time, with what response).
NoPrior ==
    [stored |-> FALSE, expire_at |-> 0, value |-> <<>>, asked |-> FALSE,
     at |-> 0, response |-> NoResponse]
PriorOf(st, earlier, key) ==
    [stored |-> key \in DOMAIN st,
     expire_at |-> IF key \in DOMAIN st THEN st[key].expire_at ELSE 0,
     value |-> IF key \in DOMAIN st THEN st[key].value ELSE <<>>,
     asked |-> key \in DOMAIN earlier,
     at |-> IF key \in DOMAIN earlier THEN earlier[key].at ELSE 0,
     response |-> IF key \in DOMAIN earlier THEN earlier[key].response
                  ELSE NoResponse]

Idle(op) ==
    Last(op, NoRequest, NoResponse, NoScrape, <<>>, 0, 0, "none", NoPrior)

NormalizeIdle ==
    /\ raw_offers = <<>>
    /\ normalized = [raised |-> FALSE, offers |-> <<>>]
    /\ npc = "idle"

\* the cache is used by three threads at most
Threads == {"t1", "t2"}

NoRegs == [op |-> "none", key |-> "", value |-> <<>>, ttl_seconds |-> 0,
           read_at |-> 0, expire_at |-> 0, ret |-> None, raised |-> FALSE]

ThreadsIdle ==
    /\ lock = "free"
    /\ tpc = [t \in Threads |-> "idle"]
    /\ treg = [t \in Threads |-> NoRegs]

CallsIdle ==
    /\ trace = <<>>
    /\ ThreadsIdle

Init ==
    /\ now = 0
    /\ store = EmptyDict
    /\ disk = (AnaConfigPath :> Json([selectors |-> [row |-> "tr.flight"]]))
    /\ DYNAMIC_CITY_CACHE = EmptyDict
    /\ settings \in Confs
    /\ answered = EmptyDict
    /\ last = Idle("start")
    /\ NormalizeIdle
    /\ CallsIdle

\* what is kept of a request to /search that search_flights answered with r
Searched(request, r, st, earlier) ==
    [Last("search", request, r.response,
          IF r.searched THEN r.found.scrape ELSE NoScrape,
          IF r.searched THEN r.found.results ELSE <<>>,
          IF r.searched THEN r.found.lookups ELSE 0,
          IF r.searched THEN r.found.source_calls ELSE 0,
          "none", PriorOf(st, earlier, generate_cache_key(request)))
     EXCEPT !.source_failed = r.searched /\ r.found.source_failed]

World(lookup_o, lookup_d, serp, site) ==
    [lookup_o |-> lookup_o, lookup_d |-> lookup_d, serp |-> serp, site |-> site]

AnySerp == [kind |-> "raise", data |-> EmptyDict]
AnySite == CHOOSE site \in AnaSites : site.nav = "raise"

\* the city cache as resolve_code(origin) leaves it, for the second lookup
AfterOrigin(request, lookup_o) ==
    resolve_code(request.origin, DYNAMIC_CITY_CACHE, settings.amadeus, lookup_o).cache

SearchApi ==
    \E request \in ApiRequests :
    \E lookup_o \in LookupsFor(request.origin, DYNAMIC_CITY_CACHE, settings.amadeus) :
    \E lookup_d \in LookupsFor(request.destination,
                               AfterOrigin(request, lookup_o), settings.amadeus) :
    \E serp \in SerpOutcomes :
    \E r \in {search_flights(request, store, disk, DYNAMIC_CITY_CACHE, settings,
                             World(lookup_o, lookup_d, serp, AnySite), now)} :
        /\ store' = r.store
        /\ disk' = r.files
        /\ DYNAMIC_CITY_CACHE' = r.city_cache
        /\ last' = Searched(request, r, store, answered)
        /\ answered' = IF r.searched
                       THEN With(answered, generate_cache_key(request),
                                 [at |-> now, response |-> r.response])
                       ELSE answered
        /\ UNCHANGED <<now, settings, nvars, xvars>>

SearchScraper ==
    \E request \in ScraperRequests :
    \E lookup_o \in LookupsFor(request.origin, DYNAMIC_CITY_CACHE, settings.amadeus) :
    \E lookup_d \in LookupsFor(request.destination,
                               AfterOrigin(request, lookup_o), settings.amadeus) :
    \E site \in SearchSites :
    \E r \in {search_flights(request, store, disk, DYNAMIC_CITY_CACHE, settings,
                             World(lookup_o, lookup_d, AnySerp, site), now)} :
        /\ store' = r.store
        /\ disk' = r.files
        /\ DYNAMIC_CITY_CACHE' = r.city_cache
        /\ last' = Searched(request, r, store, answered)
        /\ answered' = answered
        /\ UNCHANGED <<now, settings, nvars, xvars>>

CacheClear ==
    /\ store' = cache_clear(store)
    /\ answered' = EmptyDict
    /\ last' = Idle("clear")
    /\ UNCHANGED <<now, disk, DYNAMIC_CITY_CACHE, settings, nvars, xvars>>

Tick ==
    /\ now < MaxTicks * 150
    /\ now' = now + 150
    /\ last' = Idle("tick")
    /\ UNCHANGED <<store, disk, DYNAMIC_CITY_CACHE, settings, answered, nvars, xvars>>

Next == SearchApi \/ SearchScraper \/ CacheClear \/ Tick

Spec == Init /\ [][Next]_vars

-----------------------------------------------------------------------------
(* The scrapers called on their own, and the configuration endpoint *)

ScrapeEna ==
    \E origin \in {HND}, dest \in {ITM}, date \in {"2026-03-03"},
       env \in EnaSites :
        \E r \in {scrape_ena_flights(origin, dest, date, disk, env)} :
            /\ disk' = r.files
            /\ last' = Last("scrape_ena", Request(origin, dest, date, "scraper"),
                            NoResponse, r, r.results, 0, 0, "none", NoPrior)
            /\ UNCHANGED <<now, store, DYNAMIC_CITY_CACHE, settings, answered,
                           nvars, xvars>>

\* the (date, time_range, flexible_ticket) a call is made with
AnaCalls ==
    {<<"2026-03-03", "None", FALSE>>, <<"2026-03-03", "None", TRUE>>,
     <<"2026-03-03", "morning", FALSE>>, <<"2026-03-03", "evening", FALSE>>,
     <<BadDate, "None", FALSE>>}

\* The sites a call is run against: every site for the default call; the
\* time filter and the fare choice act on parsed rows only and a malformed
\* date ends the call before the browser starts.
AnaSitesFor(call) ==
    IF call = <<"2026-03-03", "None", FALSE>> THEN AnaSites
    ELSE IF call[1] = BadDate THEN {AnySite}
    ELSE {site \in SearchSites : site.rows # <<>>}

ScrapeAna ==
    \E origin \in {HND}, dest \in {ITM}, call \in AnaCalls :
    \E env \in AnaSitesFor(call) :
        \E r \in {scrape_ana_flights(origin, dest, call[1], call[2], call[3],
                                     disk, env)} :
            /\ disk' = r.files
            /\ last' = Last("scrape_ana",
                            Request(origin, dest, call[1], "scraper"),
                            NoResponse, r, r.results, 0, 0, "none", NoPrior)
            /\ UNCHANGED <<now, store, DYNAMIC_CITY_CACHE, settings, answered,
                           nvars, xvars>>

UpdateScraperConfig ==
    \E new_config \in NewConfigs, io \in {"ok", "open_fails", "remove_fails"} :
        \E r \in {update_scraper_config(new_config, disk, io, now)} :
            /\ disk' = r.files
            /\ last' = Last("update", NoRequest, NoResponse, NoScrape, <<>>, 0,
                            0, r.status, NoPrior)
            /\ UNCHANGED <<now, store, DYNAMIC_CITY_CACHE, settings, answered,
                           nvars, xvars>>

InitScrape ==
    /\ now = 0
    /\ store = EmptyDict
    /\ disk \in InitialFiles
    /\ DYNAMIC_CITY_CACHE = EmptyDict
    /\ settings = [amadeus |-> TRUE, SERPAPI_KEY |-> TRUE]
    /\ answered = EmptyDict
    /\ last = Idle("start")
    /\ NormalizeIdle
    /\ CallsIdle

NextScrape == ScrapeEna \/ ScrapeAna \/ UpdateScraperConfig \/ Tick

SpecScrape == InitScrape /\ [][NextScrape]_vars

-----------------------------------------------------------------------------
(* A call of normalize_offers on an arbitrary batch *)

\* a freshly imported process in which nothing is configured
InitFresh ==
    /\ now = 0
    /\ store = EmptyDict
    /\ disk = EmptyDict
    /\ DYNAMIC_CITY_CACHE = EmptyDict
    /\ settings = [amadeus |-> FALSE, SERPAPI_KEY |-> FALSE]
    /\ answered = EmptyDict
    /\ last = Idle("start")
    /\ NormalizeIdle
    /\ CallsIdle

InitNormalize ==
    /\ now = 0
    /\ store = EmptyDict
    /\ disk = EmptyDict
    /\ DYNAMIC_CITY_CACHE = EmptyDict
    /\ settings = [amadeus |-> FALSE, SERPAPI_KEY |-> FALSE]
    /\ answered = EmptyDict
    /\ last = Idle("start")
    /\ raw_offers \in Batches
    /\ normalized = [raised |-> FALSE, offers |-> <<>>]
    /\ npc = "call"
    /\ CallsIdle

NormalizeCall ==
    /\ npc = "call"
    /\ normalized' = normalize_offers(raw_offers)
    /\ npc' = "returned"
    /\ UNCHANGED <<raw_offers, svars, xvars>>

NextNormalize == NormalizeCall

SpecNormalize == InitNormalize /\ [][NextNormalize]_vars

-----------------------------------------------------------------------------
(* The cache used on its own by one caller: get, set and clear in any order
   as the clock advances *)

CacheKeys == {"k1", "k2"}
\* a value is any object
CacheValues == {[pytype |-> "object", id |-> 1], [pytype |-> "object", id |-> 2]}
Ttls == {150, 300}

CacheCall(op, key, value, ttl_seconds, at, ret) ==
    [op |-> op, key |-> key, value |-> value, ttl_seconds |-> ttl_seconds,
     at |-> at, ret |-> ret]

SetCall ==
    /\ Len(trace) < MaxCacheCalls
    /\ \E key \in CacheKeys, value \in CacheValues, ttl_seconds \in Ttls :
          /\ store' = cache_set(store, key, value, ttl_seconds, now)
          /\ trace' = Append(trace, CacheCall("set", key, value, ttl_seconds,
                                              now, None))
    /\ UNCHANGED <<now, disk, DYNAMIC_CITY_CACHE, settings, answered, last,
                   nvars, lock, tpc, treg>>

GetCall ==
    /\ Len(trace) < MaxCacheCalls
    /\ \E key \in CacheKeys :
          /\ store' = cache_get_store(store, key, now)
          /\ trace' = Append(trace, CacheCall("get", key, "", 0, now,
                                              cache_get_value(store, key, now)))
    /\ UNCHANGED <<now, disk, DYNAMIC_CITY_CACHE, settings, answered, last,
                   nvars, lock, tpc, treg>>

ClearCall ==
    /\ Len(trace) < MaxCacheCalls
    /\ store' = cache_clear(store)
    /\ trace' = Append(trace, CacheCall("clear", "", "", 0, now, None))
    /\ UNCHANGED <<now, disk, DYNAMIC_CITY_CACHE, settings, answered, last,
                   nvars, lock, tpc, treg>>

NextCache == SetCall \/ GetCall \/ ClearCall \/ Tick

SpecCache == InitFresh /\ [][NextCache]_vars

-----------------------------------------------------------------------------
(* resolve_code called on its own, time after time in one process *)

Blank == <<" ">>
PaddedQqq == <<" ", "q", "q", "q", " ">>

ResolveInputs == {<<>>, Blank, HND, LowerHnd, TOKYO, QQQ, PaddedQqq}

InitResolve ==
    /\ now = 0
    /\ store = EmptyDict
    /\ disk = EmptyDict
    /\ DYNAMIC_CITY_CACHE = EmptyDict
    /\ settings \in Confs
    /\ answered = EmptyDict
    /\ last = Idle("start")
    /\ NormalizeIdle
    /\ CallsIdle

ResolveCall ==
    /\ Len(trace) < MaxResolveCalls
    /\ \E input_str \in ResolveInputs :
       \E lookup \in LookupsFor(input_str, DYNAMIC_CITY_CACHE, settings.amadeus) :
       \E r \in {resolve_code(input_str, DYNAMIC_CITY_CACHE, settings.amadeus,
                              lookup)} :
          /\ DYNAMIC_CITY_CACHE' = r.cache
          /\ trace' = Append(trace,
                             [input_str |-> input_str, lookup |-> lookup,
                              client |-> settings.amadeus,
                              cache_before |-> DYNAMIC_CITY_CACHE,
                              code |-> r.code, calls |-> r.calls])
    /\ UNCHANGED <<now, store, disk, settings, answered, last, nvars, lock,
                   tpc, treg>>

NextResolve == ResolveCall

SpecResolve == InitResolve /\ [][NextResolve]_vars

-----------------------------------------------------------------------------
(* extract_flights_from_html called on its own, on whatever the model may
   answer *)

ExtractReplies ==
    AiReplies
        \cup {Reply("prose", "none", <<>>),
              Reply("number", "none", <<>>),
              Reply("array", "json", <<AString, AiRecord>>),
              Reply("array", "none", <<None>>),
              Reply("array", "none", <<AiRecord, None,
                                       [AiRecord EXCEPT !.price = 9000]>>)}

ExtractCall ==
    /\ Len(trace) < MaxExtractCalls
    /\ \E reply \in ExtractReplies, dest \in {ITM, FUK} :
          trace' = Append(trace,
                          [reply |-> reply, origin |-> HND, dest |-> dest,
                           date |-> "2026-03-03",
                           ret |-> extract_flights_from_html(reply, HND, dest,
                                                             "2026-03-03")])
    /\ UNCHANGED <<svars, nvars, lock, tpc, treg>>

NextExtract == ExtractCall

SpecExtract == InitFresh /\ [][NextExtract]_vars

-----------------------------------------------------------------------------
(* calculate_score and rank_offers called on their own *)

JL == <<"J", "L">>

DirectOffer == normalize_amadeus_offer(AmadeusOffer)

\* the offers handed to the ranker: two of them alike but for the id, one
\* with a stop, one cheaper, one of another carrier
RankPool ==
    {DirectOffer,
     [DirectOffer EXCEPT !.id = <<"AM", 9, <<>>>>],
     normalize_amadeus_offer(AmadeusOneStop),
     normalize_serpapi_offer(SerpOffer),
     [DirectOffer EXCEPT !.id = <<"AM", 7, <<>>>>, !.carrier_main = JL,
                         !.price = 11000]}

\* prefs: none, a preferred carrier, an empty preferred carrier
Prefs == {EmptyDict, [carrier |-> NH], [carrier |-> <<>>]}

\* the offers scored so far, which may be scored again
Scored == {trace[i].out : i \in 1..Len(trace)}

ScoreCall ==
    /\ Len(trace) < MaxScoreCalls
    /\ \A i \in 1..Len(trace) : trace[i].op = "score"
    /\ \E offer \in RankPool \cup Scored, prefs \in Prefs :
          trace' = Append(trace, [op |-> "score", offer |-> offer,
                                  prefs |-> prefs,
                                  out |-> calculate_score(offer, prefs)])
    /\ UNCHANGED <<svars, nvars, lock, tpc, treg>>

RankLists == UNION {[1..n -> RankPool] : n \in 0..MaxRank}

RankCall ==
    /\ trace = <<>>
    /\ \E offers \in RankLists, prefs \in Prefs :
          trace' = Append(trace, [op |-> "rank", offers |-> offers,
                                  prefs |-> prefs,
                                  out |-> rank_offers(offers, prefs)])
    /\ UNCHANGED <<svars, nvars, lock, tpc, treg>>

NextRank == ScoreCall \/ RankCall

SpecRank == InitFresh /\ [][NextRank]_vars

-----------------------------------------------------------------------------
(* The two scrapers called one attempt after another, with
   update_scraper_config between them.  The trace holds the attempt made
   last: its arguments, the site it met, the files it found, the selectors
   it loaded from them (ENA; the ANA row loop uses none), how far it got and
   what it returned. *)

\* args are the arguments of the call: origin, dest, date, time_range,
\* flexible_ticket, headless, auto_close
Attempt(site, args, env, files, selectors, form, session, outcome) ==
    args @@ [site |-> site, env |-> env, files |-> files,
             selectors |-> selectors, form |-> form, session |-> session,
             outcome |-> outcome]

\* the form of a site that has none
NoForm ==
    [origin_selected |-> FALSE, dest_selected |-> FALSE,
     calendar_opened |-> FALSE, date_clicked |-> FALSE, submitted |-> FALSE,
     loaded |-> FALSE]

\* the answers of the extraction prompt an attempt is run against: none, or
\* a list of records
AttemptReplies == {Reply("error", "none", <<>>), Extracting}

\* SCRAPER_HEADLESS and SCRAPER_AUTO_CLOSE: a hidden browser that closes at
\* once, or a shown one left open
Runs == {[headless |-> TRUE, auto_close |-> TRUE],
         [headless |-> FALSE, auto_close |-> FALSE]}

AnaAttempt ==
    \E origin \in {HND}, dest \in {ITM}, call \in AnaCalls,
       auto_close \in {run.auto_close : run \in Runs} :
       \E env \in {site \in AnaSitesFor(call) :
                       site.ai_reply \in AttemptReplies} :
       \E r \in {scrape_ana_flights(origin, dest, call[1], call[2], call[3],
                                    disk, env)} :
          /\ disk' = r.files
          /\ trace' = <<
                 Attempt("ANA",
                         [origin |-> origin, dest |-> dest, date |-> call[1],
                          time_range |-> call[2], flexible_ticket |-> call[3],
                          headless |-> FALSE, auto_close |-> auto_close],
                         env, disk, EmptyDict,
                         IF call[1] \in Dates THEN AnaForm(env) ELSE NoForm,
                         AnaSession(call[1], env, auto_close), r)>>
          /\ UNCHANGED <<now, store, DYNAMIC_CITY_CACHE, settings, answered,
                         last, nvars, lock, tpc, treg>>

EnaAttempt ==
    \E origin \in {HND}, dest \in {ITM}, date \in {"2026-03-03"},
       run \in Runs,
       env \in {site \in EnaSites : site.ai_reply \in AttemptReplies} :
       \E r \in {scrape_ena_flights(origin, dest, date, disk, env)} :
          /\ disk' = r.files
          /\ trace' = <<
                 Attempt("ENA",
                         [origin |-> origin, dest |-> dest, date |-> date,
                          time_range |-> "None", flexible_ticket |-> FALSE,
                          headless |-> run.headless,
                          auto_close |-> run.auto_close],
                         env, disk,
                         LoadSelectors(disk, EnaConfigPath, EnaDefaultSelectors),
                         NoForm,
                         EnaSession(r, env, run.headless, run.auto_close), r)>>
          /\ UNCHANGED <<now, store, DYNAMIC_CITY_CACHE, settings, answered,
                         last, nvars, lock, tpc, treg>>

NextAttempts == AnaAttempt \/ EnaAttempt \/ UpdateScraperConfig

SpecAttempts == InitScrape /\ [][NextAttempts]_vars

-----------------------------------------------------------------------------
(* The cache shared by the threads that serve requests: each method of
   SimpleCache runs statement by statement, the clock advances at any moment,
   and a thread that got its answer from get goes on to its search (I/O)
   outside the cache.  A call is entered in the trace when it releases the
   lock. *)

MutLockAlwaysFree(l) == TRUE

\* `with self._lock:` is entered when no thread holds the lock
LockFree(l) == l = "free"

\* the statements inside the `with self._lock:` blocks
Locked == {"get_test", "get_read", "get_time", "get_del", "set_time",
           "set_store", "clear_do", "release"}

\* the threads contend for one cache key (main.py builds it from the request)
ThreadKeys == {"k1"}

Started == Len(trace) + Cardinality({t \in Threads : tpc[t] # "idle"})

ThreadCall(t, op, key, value, ttl_seconds) ==
    /\ tpc[t] = "idle"
    /\ Started < MaxThreadCalls
    /\ treg' = [treg EXCEPT ![t] = [NoRegs EXCEPT !.op = op, !.key = key,
                                        !.value = value,
                                        !.ttl_seconds = ttl_seconds]]
    /\ tpc' = [tpc EXCEPT ![t] = "acquire"]
    /\ UNCHANGED <<svars, nvars, trace, lock>>

Invoke ==
    \E t \in Threads :
        \/ \E key \in ThreadKeys : ThreadCall(t, "get", key, <<>>, 0)
        \/ \E key \in ThreadKeys, value \in CacheValues :
               ThreadCall(t, "set", key, value, CACHE_TTL)
        \/ ThreadCall(t, "clear", "", <<>>, 0)

Acquire ==
    \E t \in Threads :
        /\ tpc[t] = "acquire"
        /\ LockFree(lock)
        /\ lock' = t
        /\ tpc' = [tpc EXCEPT ![t] = CASE treg[t].op = "get" -> "get_test"
                                        [] treg[t].op = "set" -> "set_time"
                                        [] OTHER -> "clear_do"]
        /\ UNCHANGED <<svars, nvars, trace, treg>>

\* if key in self._store:
GetTest ==
    \E t \in Threads :
        /\ tpc[t] = "get_test"
        /\ tpc' = [tpc EXCEPT ![t] = IF treg[t].key \in DOMAIN store
                                     THEN "get_read" ELSE "release"]
        /\ UNCHANGED <<svars, nvars, trace, lock, treg>>

\* value, expire_at = self._store[key]: a KeyError if the key is gone
GetRead ==
    \E t \in Threads :
        /\ tpc[t] = "get_read"
        /\ IF treg[t].key \in DOMAIN store
           THEN /\ treg' = [treg EXCEPT
                              ![t].value = store[treg[t].key].value,
                              ![t].expire_at = store[treg[t].key].expire_at]
                /\ tpc' = [tpc EXCEPT ![t] = "get_time"]
           ELSE /\ treg' = [treg EXCEPT ![t].raised = TRUE]
                /\ tpc' = [tpc EXCEPT ![t] = "release"]
        /\ UNCHANGED <<svars, nvars, trace, lock>>

\* if time.time() < expire_at: return value
GetTime ==
    \E t \in Threads :
        /\ tpc[t] = "get_time"
        /\ IF now < treg[t].expire_at
           THEN /\ treg' = [treg EXCEPT ![t].read_at = now,
                                        ![t].ret = treg[t].value]
                /\ tpc' = [tpc EXCEPT ![t] = "release"]
           ELSE /\ treg' = [treg EXCEPT ![t].read_at = now]
                /\ tpc' = [tpc EXCEPT ![t] = "get_del"]
        /\ UNCHANGED <<svars, nvars, trace, lock>>

\* del self._store[key]: a KeyError if the key is gone
GetDel ==
    \E t \in Threads :
        /\ tpc[t] = "get_del"
        /\ IF treg[t].key \in DOMAIN store
           THEN /\ store' = Without(store, treg[t].key)
                /\ treg' = treg
           ELSE /\ store' = store
                /\ treg' = [treg EXCEPT ![t].raised = TRUE]
        /\ tpc' = [tpc EXCEPT ![t] = "release"]
        /\ UNCHANGED <<now, disk, DYNAMIC_CITY_CACHE, settings, answered, last,
                       nvars, trace, lock>>

\* expire_at = time.time() + ttl_seconds
SetTime ==
    \E t \in Threads :
        /\ tpc[t] = "set_time"
        /\ treg' = [treg EXCEPT ![t].read_at = now,
                                ![t].expire_at = now + treg[t].ttl_seconds]
        /\ tpc' = [tpc EXCEPT ![t] = "set_store"]
        /\ UNCHANGED <<svars, nvars, trace, lock>>

\* self._store[key] = (value, expire_at)
SetStore ==
    \E t \in Threads :
        /\ tpc[t] = "set_store"
        /\ store' = With(store, treg[t].key,
                         [value |-> treg[t].value,
                          expire_at |-> treg[t].expire_at])
        /\ tpc' = [tpc EXCEPT ![t] = "release"]
        /\ UNCHANGED <<now, disk, DYNAMIC_CITY_CACHE, settings, answered, last,
                       nvars, trace, lock, treg>>

\* self._store.clear()
ClearDo ==
    \E t \in Threads :
        /\ tpc[t] = "clear_do"
        /\ store' = EmptyDict
        /\ treg' = [treg EXCEPT ![t].read_at = now]
        /\ tpc' = [tpc EXCEPT ![t] = "release"]
        /\ UNCHANGED <<now, disk, DYNAMIC_CITY_CACHE, settings, answered, last,
                       nvars, trace, lock>>

\* the end of the with block; after a get the request goes on to its search
Release ==
    \E t \in Threads :
        /\ tpc[t] = "release"
        /\ lock' = IF lock = t THEN "free" ELSE lock
        /\ trace' = Append(trace, [treg[t] EXCEPT !.read_at =
                                       IF treg[t].op = "get"
                                          /\ treg[t].expire_at = 0
                                       THEN now ELSE treg[t].read_at])
        /\ tpc' = [tpc EXCEPT ![t] = IF treg[t].op = "get" THEN "io"
                                     ELSE "idle"]
        /\ UNCHANGED <<svars, nvars, treg>>

\* search_offers, normalize_offers, rank_offers: outside the cache
SearchDone ==
    \E t \in Threads :
        /\ tpc[t] = "io"
        /\ tpc' = [tpc EXCEPT ![t] = "idle"]
        /\ UNCHANGED <<svars, nvars, trace, lock, treg>>

NextThreads ==
    \/ Invoke \/ Acquire \/ GetTest \/ GetRead \/ GetTime \/ GetDel
    \/ SetTime \/ SetStore \/ ClearDo \/ Release \/ SearchDone \/ Tick

SpecThreads == InitFresh /\ [][NextThreads]_vars

-----------------------------------------------------------------------------
(* The properties *)

Scrapes == {"scrape_ena", "scrape_ana"}

SuggestionPathOf(site) ==
    IF site = "ENA" THEN EnaSuggestionPath ELSE AnaSuggestionPath

ConfigPathOf(site) == IF site = "ENA" THEN EnaConfigPath ELSE AnaConfigPath

\* the scrape that ran last found no row and the AI extraction accepted at
\* least one record
FallbackSucceeded ==
    /\ last.op \in Scrapes
    /\ last.scrape.returns = "tuple"
    /\ last.scrape.det_rows = 0
    /\ last.scrape.ai_invoked
    /\ last.scrape.ai_records >= 1

\* C1: a scrape whose deterministic extraction yields no row and whose AI
\* extraction accepts at least one record invokes the healer, and when it
\* returns there is a suggestion file this scrape wrote.
HealedAfterFallback ==
    FallbackSucceeded =>
        /\ last.scrape.healer_invoked
        /\ last.scrape.suggestion_written
        /\ SuggestionPathOf(last.scrape.site) \in DOMAIN disk

\* the request to /search that ran last was a scraper-mode one whose scrape
\* found no row and whose AI extraction accepted no record
FallbackFailed ==
    /\ last.op = "search"
    /\ last.request.searchMode = "scraper"
    /\ last.scrape.ai_invoked
    /\ last.scrape.det_rows = 0
    /\ last.scrape.ai_records = 0

\* C2: when the deterministic extraction yields no row and the AI extraction
\* returns no record either, /search answers with an empty offers list and a
\* warning that is a non-empty string.
EmptyWithWarning ==
    FallbackFailed =>
        /\ last.response.status = 200
        /\ last.response.offers = <<>>
        /\ last.response.warning \notin {NoWarning, "absent", ""}

HandledSources == {"amadeus", "serpapi", "ena_scraper"}

\* C3: every raw payload search_offers returns carries a _source that
\* normalize_offers has a rule for, and a scraper-mode search that parsed
\* k >= 1 rows answers with k offers.
EveryPayloadConverts ==
    last.op = "search" =>
        /\ \A i \in 1..Len(last.raw) : SourceOf(last.raw[i]) \in HandledSources
        /\ last.request.searchMode = "scraper" /\ last.scrape.det_rows >= 1
               => /\ last.response.status = 200
                  /\ Len(last.response.offers) = last.scrape.det_rows

\* C4: a scrape whose deterministic extraction yields no row and whose AI
\* extraction accepts n >= 1 records returns n raw payloads, each tagged as
\* the payloads of the deterministic path are.
FallbackReturnsEveryRecord ==
    FallbackSucceeded =>
        /\ Len(last.raw) = last.scrape.ai_records
        /\ \A i \in 1..Len(last.raw) : SourceOf(last.raw[i]) \in HandledSources

\* the active selector configurations among the files
ActiveConfig(files) ==
    [path \in (DOMAIN files) \cap {EnaConfigPath, AnaConfigPath} |-> files[path]]

\* before and after hold the same files with the same content, the two
\* suggestion files aside
OnlySuggestionsDiffer(before, after) ==
    \A path \in ((DOMAIN before) \cup (DOMAIN after))
                    \ {EnaSuggestionPath, AnaSuggestionPath} :
        /\ path \in DOMAIN before
        /\ path \in DOMAIN after
        /\ before[path] = after[path]

\* C5: no scrape writes an active selector configuration: a scrape leaves
\* every file but the suggestion files as it was, and the active
\* configuration changes only in a step of update_scraper_config.
ConfigChangesOnlyByUpdate ==
    [][/\ last'.op \in Scrapes => OnlySuggestionsDiffer(disk, disk')
       /\ ActiveConfig(disk') # ActiveConfig(disk) => last'.op = "update"]_vars

\* a scrape that went through the self-healing block returned while the
\* site's active configuration was on disk
HealerRanBesideConfig ==
    /\ last.op \in Scrapes
    /\ last.scrape.healer_invoked
    /\ ConfigPathOf(last.scrape.site) \in DOMAIN disk

\* C6: after a successful update_scraper_config no pending suggestion file
\* remains, neither the ENA one nor the ANA one.
PromotionClearsSuggestions ==
    last.op = "update" /\ last.status = "success" =>
        /\ EnaSuggestionPath \notin DOMAIN disk
        /\ AnaSuggestionPath \notin DOMAIN disk

\* the Offer normalize_offers makes of one record taken alone, if any
OfferOfRecord(raw) ==
    IF NormalizeOne(raw) = "amadeus" THEN <<normalize_amadeus_offer(raw)>>
    ELSE IF NormalizeOne(raw) = "serpapi" THEN <<normalize_serpapi_offer(raw)>>
    ELSE <<>>

RECURSIVE OffersOfRecords(_, _)
OffersOfRecords(batch, i) ==
    IF i > Len(batch) THEN <<>>
    ELSE OfferOfRecord(batch[i]) \o OffersOfRecords(batch, i + 1)

\* C7: normalize_offers raises for no batch; it skips each malformed record,
\* one that is no mapping included, and returns the Offers of the well-formed
\* records in input order.
NormalizeNeverRaises ==
    npc = "returned" =>
        /\ ~normalized.raised
        /\ normalized.offers = OffersOfRecords(raw_offers, 1)

Priceless(raw) ==
    IsDict(raw) /\ SourceOf(raw) \in HandledSources /\ "price" \notin DOMAIN raw

\* the batch without its payloads that have a handled _source and no price
RECURSIVE PricedOnly(_, _)
PricedOnly(batch, i) ==
    IF i > Len(batch) THEN <<>>
    ELSE (IF Priceless(batch[i]) THEN <<>> ELSE <<batch[i]>>)
             \o PricedOnly(batch, i + 1)

\* C8: a payload with a handled _source and no price yields no Offer, while
\* the other payloads of the batch yield theirs: the call returns what it
\* returns for the batch without the price-less payloads.
PricelessPayloadDropped ==
    npc = "returned" /\ ~normalized.raised =>
        normalized.offers = normalize_offers(PricedOnly(raw_offers, 1)).offers

\* C9: every Offer normalize_offers returns has stops equal to the number of
\* its segments minus one, whatever the payload says of stops.
StopsFromSegments ==
    npc = "returned" =>
        \A i \in 1..Len(normalized.offers) :
            normalized.offers[i].stops = Len(normalized.offers[i].segments) - 1

\* a returned batch of two Offers, the first from a payload that states a
\* stop count of its own which the Offer does not have, the second with two
\* segments
StopsDerivedNotCopied ==
    /\ npc = "returned"
    /\ ~normalized.raised
    /\ Len(raw_offers) = 2
    /\ Len(normalized.offers) = 2
    /\ "stops" \in DOMAIN raw_offers[1]
    /\ raw_offers[1].stops # normalized.offers[1].stops
    /\ Len(normalized.offers[2].segments) = 2

\* The request that ran last was an API-mode one, and an earlier API-mode
\* request with the same key was answered by the source less than the TTL
\* ago with no cache clear since.
SecondWithinTtl ==
    /\ last.op = "search"
    /\ last.request.searchMode # "scraper"
    /\ last.prior.asked
    /\ now - last.prior.at < CACHE_TTL

ServedFromCache ==
    /\ last.response.cached = "True"
    /\ last.response.offers = last.prior.response.offers
    /\ last.source_calls = 0
    /\ last.lookups = 0

\* C10 as stated: of two API-mode requests with the same key, the second
\* within the TTL of the first and with no cache clear in between, the second
\* is answered with cached=true and the offers of the first in the same
\* order, without a call to the source.
RepeatServedFromCache == SecondWithinTtl => ServedFromCache

\* C10: the same, for a first request that was answered with at least one
\* offer.
RepeatOfOffersServedFromCache ==
    SecondWithinTtl /\ last.prior.response.status = 200
                    /\ last.prior.response.offers # <<>>
        => ServedFromCache

\* a second request, later than the first and within its TTL, answered from
\* the cache with the two ranked offers of the first
CachedRepeat ==
    /\ SecondWithinTtl
    /\ now > last.prior.at
    /\ Len(last.prior.response.offers) = 2
    /\ ServedFromCache

\* the calls i < j of the trace are a set and a get of the same key with no
\* set of that key and no clear between them
SetThenGet(i, j) ==
    /\ i < j
    /\ trace[i].op = "set"
    /\ trace[j].op = "get"
    /\ trace[j].key = trace[i].key
    /\ \A m \in (i + 1)..(j - 1) :
          /\ trace[m].op # "clear"
          /\ ~(trace[m].op = "set" /\ trace[m].key = trace[i].key)

\* C11: after set(key, v, ttl) with ttl > 0 and no later set of the key nor
\* clear, a get(key) before the expiry instant returns v and a get(key) at or
\* after it returns None.
CacheRoundTrip ==
    \A i, j \in 1..Len(trace) :
        SetThenGet(i, j) /\ trace[i].ttl_seconds > 0 =>
            IF trace[j].at < trace[i].at + trace[i].ttl_seconds
            THEN trace[j].ret = trace[i].value
            ELSE trace[j].ret = None

\* a set, a get that returns the value, and a get at the very expiry instant
\* that returns None
ReadBackThenExpired ==
    /\ Len(trace) = 3
    /\ SetThenGet(1, 2)
    /\ trace[2].ret = trace[1].value
    /\ SetThenGet(1, 3)
    /\ trace[3].at = trace[1].at + trace[1].ttl_seconds
    /\ trace[3].ret = None

\* every cache entry holds the offers the source gave to the latest API-mode
\* request with that key
CacheHoldsApiAnswers ==
    \A key \in DOMAIN store :
        /\ key \in DOMAIN answered
        /\ store[key].value = answered[key].response.offers

\* C12: a scraper-mode request leaves the cache as it was (no entry read
\* away, none written), is never answered from the cache, and what the cache
\* holds for later API-mode requests never comes from a scraper-mode request.
ScraperBypassesCache ==
    /\ []CacheHoldsApiAnswers
    /\ [][last'.op = "search" /\ last'.request.searchMode = "scraper"
            => /\ store' = store
               /\ last'.response.cached # "True"]_vars

\* a scraper-mode request that scraped payloads while the cache held a live
\* entry under the request's key
ScrapedBesideLiveEntry ==
    /\ last.op = "search"
    /\ last.request.searchMode = "scraper"
    /\ last.prior.stored
    /\ now < last.prior.expire_at
    /\ last.prior.value # <<>>
    /\ last.raw # <<>>

\* the key a call looks up: its input trimmed and upper-cased
KeyOf(call) == CleanStr(call.input_str)

\* C13: resolve_code returns the static-table entry of the trimmed,
\* upper-cased input if there is one, making no lookup and whatever the
\* runtime cache holds; else the runtime-cache entry, making no lookup; else
\* the code of the first lookup result; else the normalized input.
ResolutionOrder ==
    \A i \in 1..Len(trace) :
        LET call == trace[i]
            key == KeyOf(call)
        IN  IF key \in DOMAIN CITY_MAP
            THEN call.code = CITY_MAP[key] /\ call.calls = 0
            ELSE IF key \in DOMAIN call.cache_before
            THEN call.code = call.cache_before[key] /\ call.calls = 0
            ELSE IF call.client /\ call.lookup.kind = "data"
            THEN call.code = call.lookup.iataCode
            ELSE call.code = key

\* three calls: an input that needs trimming and upper-casing to hit the
\* static table, a key resolved by a lookup to another code, and the same
\* key answered from the runtime cache
EveryRungTaken ==
    /\ Len(trace) = 3
    /\ trace[1].input_str = LowerHnd /\ trace[1].code = HND
    /\ trace[2].input_str = QQQ /\ trace[2].calls = 1 /\ trace[2].code = ITM
    /\ trace[3].input_str = PaddedQqq /\ trace[3].calls = 0
    /\ trace[3].code = ITM

\* call i is the first call of a key that is in neither table, and call j
\* the next call with that key
FirstAndSecond(i, j) ==
    /\ i < j
    /\ KeyOf(trace[j]) = KeyOf(trace[i])
    /\ KeyOf(trace[i]) \notin DOMAIN CITY_MAP
    /\ KeyOf(trace[i]) \notin DOMAIN trace[i].cache_before
    /\ \A m \in (i + 1)..(j - 1) : KeyOf(trace[m]) # KeyOf(trace[i])

\* C14 as stated: for any key in neither table the first call makes exactly
\* one lookup and caches its result, and the second call makes none.
OneLookupPerKey ==
    \A i, j \in 1..Len(trace) :
        FirstAndSecond(i, j) =>
            /\ trace[i].calls = 1
            /\ KeyOf(trace[i]) \in DOMAIN trace[j].cache_before
            /\ trace[j].calls = 0

\* C14: the same, for a key whose first call makes a lookup that returns a
\* result.
OneLookupPerFoundKey ==
    \A i, j \in 1..Len(trace) :
        FirstAndSecond(i, j) /\ trace[i].client
                             /\ trace[i].lookup.kind = "data" =>
            /\ trace[i].calls = 1
            /\ KeyOf(trace[i]) \in DOMAIN trace[j].cache_before
            /\ trace[j].cache_before[KeyOf(trace[i])] = trace[i].lookup.iataCode
            /\ trace[j].calls = 0
            /\ trace[j].code = trace[i].code

\* a key resolved by a lookup, another key in between, and the first key
\* again, spelled differently
FoundOnceThenRemembered ==
    /\ Len(trace) = 3
    /\ FirstAndSecond(1, 3)
    /\ trace[1].lookup.kind = "data"
    /\ trace[1].calls = 1
    /\ trace[2].calls = 1
    /\ trace[3].input_str # trace[1].input_str
    /\ trace[3].calls = 0

\* the elements of a parsed array that hold the four mandatory fields, as
\* extract_flights_from_html returns them
CompleteRecords(call) ==
    ValidFlightsFrom(call.reply.items, 1, call.origin, call.dest, call.date,
                     <<>>)

\* C15: extract_flights_from_html returns a list whose records all hold the
\* four mandatory fields; of a JSON array it returns the complete elements in
\* order and drops the others, and of anything else the empty list.
ExtractKeepsComplete ==
    \A i \in 1..Len(trace) :
        LET call == trace[i]
        IN  /\ \A k \in 1..Len(call.ret) :
                  MandatoryFields \subseteq DOMAIN call.ret[k]
            /\ call.ret = IF call.reply.kind = "array"
                          THEN CompleteRecords(call) ELSE <<>>

\* the preferred-carrier bonus applies to the offer
BonusApplies(offer, prefs) ==
    /\ "carrier" \in DOMAIN prefs
    /\ prefs.carrier # <<>>
    /\ offer.carrier_main = prefs.carrier

\* an offer without its scoring fields
Unscored(offer) == Without(Without(offer, "score"), "score_breakdown")

\* C16: the score is 1000 - price/1000 - duration/10 - 50*stops, plus 100
\* exactly when a preferred carrier is given and is the offer's main carrier
\* (in thousandths here); the breakdown has the keys price, duration, stops
\* and, exactly with the bonus, carrier; nothing depends on the score or
\* breakdown the offer had before.
ScoreIsTheFormula ==
    \A i \in 1..Len(trace) :
        trace[i].op = "score" =>
            LET offer == trace[i].offer
                bonus == BonusApplies(offer, trace[i].prefs)
            IN  /\ trace[i].out.score =
                       1000000 - offer.price
                           - 100 * offer.total_duration_minutes
                           - 50000 * offer.stops
                           + (IF bonus THEN 100000 ELSE 0)
                /\ DOMAIN trace[i].out.score_breakdown =
                       {"price", "duration", "stops"}
                           \cup (IF bonus THEN {"carrier"} ELSE {})
                /\ Unscored(trace[i].out) = Unscored(offer)
                /\ \A j \in 1..Len(trace) :
                       /\ trace[j].op = "score"
                       /\ trace[j].prefs = trace[i].prefs
                       /\ Unscored(trace[j].offer) = Unscored(offer)
                       => trace[j].out = trace[i].out

\* an offer scored with the bonus and then scored again, as it came out, with
\* the same preferences
RescoredWithBonus ==
    /\ Len(trace) = 2
    /\ trace[1].op = "score"
    /\ trace[2].op = "score"
    /\ trace[2].offer = trace[1].out
    /\ trace[2].prefs = trace[1].prefs
    /\ trace[1].offer.score # trace[1].out.score
    /\ "carrier" \in DOMAIN trace[2].out.score_breakdown

\* the offers of a rank_offers call, scored
ScoredInput(call) ==
    [i \in 1..Len(call.offers) |-> calculate_score(call.offers[i], call.prefs)]

Reversed(seq) == [i \in 1..Len(seq) |-> seq[Len(seq) + 1 - i]]

DistinctScores(seq) ==
    \A i, j \in 1..Len(seq) : i # j => seq[i].score # seq[j].score

\* out lists the offers of scored as the permutation p tells, by score
\* descending, offers of equal score in the order they have in scored
StablyOrdered(scored, out, p) ==
    /\ \A k \in 1..Len(out) : out[k] = scored[p[k]]
    /\ \A k, l \in 1..Len(out) :
          k < l => \/ scored[p[k]].score > scored[p[l]].score
                   \/ /\ scored[p[k]].score = scored[p[l]].score
                      /\ p[k] < p[l]

\* C17: rank_offers returns a permutation of its input sorted by score
\* descending in which offers of equal score keep their input order, and for
\* pairwise distinct scores the reversed input gives the same output.
RankedStably ==
    \A i \in 1..Len(trace) :
        trace[i].op = "rank" =>
            /\ Len(trace[i].out) = Len(trace[i].offers)
            /\ \E p \in Permutations(1..Len(trace[i].offers)) :
                  StablyOrdered(ScoredInput(trace[i]), trace[i].out, p)
            /\ DistinctScores(trace[i].out)
                  => rank_offers(Reversed(trace[i].offers), trace[i].prefs)
                         = trace[i].out

\* three offers ranked, two of them with one score, which came out in
\* another order than they went in
TieKeptWhileSorting ==
    /\ Len(trace) = 1
    /\ trace[1].op = "rank"
    /\ Len(trace[1].out) = 3
    /\ trace[1].out # ScoredInput(trace[1])
    /\ \E k \in 1..2 : /\ trace[1].out[k].score = trace[1].out[k + 1].score
                        /\ trace[1].out[k].id # trace[1].out[k + 1].id

\* C18: every scrape call returns the pair (payload list, warning) and
\* raises nothing; when an error ended the attempt the list is empty and the
\* warning is a non-empty text.
ScrapeReturnsPair ==
    last.op \in Scrapes =>
        /\ last.scrape.returns = "tuple"
        /\ last.scrape.aborted =>
               /\ last.raw = <<>>
               /\ last.scrape.warning \notin {NoWarning, ""}

\* C19: when an API-mode request finds its source failing (the provider
\* call raises, or no provider key is configured), /search answers with a
\* well-formed response: no offers and a warning that is a non-empty text.
ApiFailureIsExplained ==
    /\ last.op = "search"
    /\ last.request.searchMode # "scraper"
    /\ last.source_failed
    => /\ last.response.status = 200
       /\ last.response.offers = <<>>
       /\ last.response.warning \notin {NoWarning, "absent", ""}

\* entry i of the trace is the set whose value a get at entry j finds: the
\* latest set of the key before j, with no clear after it
LatestSet(i, j) ==
    /\ i < j
    /\ trace[i].op = "set"
    /\ trace[i].key = trace[j].key
    /\ \A m \in (i + 1)..(j - 1) :
          /\ trace[m].op # "clear"
          /\ ~(trace[m].op = "set" /\ trace[m].key = trace[j].key)

\* C20: a thread is at a statement that touches the store only while it
\* holds the lock, and holds no lock while it searches; no call raises; and
\* in the order in which the calls held the lock, a get returns the value of
\* the latest set of its key if that was not cleared and had not expired when
\* the get read the clock, and None otherwise.
CacheCallsAreAtomic ==
    /\ \A t \in Threads : tpc[t] \in Locked => lock = t
    /\ \A t \in Threads : tpc[t] = "io" => lock # t
    /\ \A j \in 1..Len(trace) :
          /\ ~trace[j].raised
          /\ trace[j].op = "get" =>
                IF \E i \in 1..Len(trace) :
                       LatestSet(i, j) /\ trace[j].read_at < trace[i].expire_at
                THEN \E i \in 1..Len(trace) :
                       LatestSet(i, j) /\ trace[j].ret = trace[i].value
                ELSE trace[j].ret = None

\* a get that holds the lock has read the value of the set before it while
\* another thread waits for the lock to clear the cache
ContendedGetSeesSet ==
    \E t \in Threads, u \in Threads :
        /\ lock = t
        /\ tpc[t] = "release"
        /\ treg[t].op = "get"
        /\ Len(trace) >= 1
        /\ trace[Len(trace)].op = "set"
        /\ treg[t].ret = trace[Len(trace)].value
        /\ tpc[u] = "acquire"
        /\ treg[u].op = "clear"

\* C21: nothing but a call changes the store, so an expired entry stays
\* until the next get of its key; that get returns None and removes exactly
\* that entry; a get of an unexpired or missing key leaves the store unchanged.
LazyEviction ==
    [][/\ trace' = trace => store' = store
       /\ (Len(trace') = Len(trace) + 1 /\ trace'[Len(trace')].op = "get") =>
             IF /\ trace'[Len(trace')].key \in DOMAIN store
                /\ store[trace'[Len(trace')].key].expire_at <= now
             THEN /\ trace'[Len(trace')].ret = None
                  /\ store' = Without(store, trace'[Len(trace')].key)
             ELSE store' = store]_vars

\* two entries expired; a get of the first returned None and removed it while
\* the second, not read, is still in the store
ExpiredEntryLingers ==
    /\ Len(trace) = 3
    /\ trace[1].op = "set"
    /\ trace[2].op = "set"
    /\ trace[2].key # trace[1].key
    /\ trace[3].op = "get"
    /\ trace[3].key = trace[1].key
    /\ trace[3].ret = None
    /\ trace[1].key \notin DOMAIN store
    /\ trace[2].key \in DOMAIN store
    /\ store[trace[2].key].expire_at <= trace[3].at

\* C22: an ANA attempt submits the search form only after it clicked a
\* visible calendar cell of the requested date; when the calendar shows no
\* such cell the attempt does not submit, parses no row and returns no
\* payload and a warning; every payload is dated with the requested date.
SubmitOnlyAfterDate ==
    \A i \in 1..Len(trace) :
        trace[i].site = "ANA" =>
            /\ trace[i].form.submitted => trace[i].form.date_clicked
            /\ (trace[i].form.calendar_opened /\ ~trace[i].env.date_visible) =>
                  /\ ~trace[i].form.submitted
                  /\ trace[i].outcome.det_rows = 0
                  /\ trace[i].outcome.returns = "tuple"
                  /\ trace[i].outcome.results = <<>>
                  /\ trace[i].outcome.warning # NoWarning
            /\ \A k \in 1..Len(trace[i].outcome.results) :
                  /\ trace[i].form.date_clicked
                  /\ \A g \in 1..Len(trace[i].outcome.results[k].segments) :
                        trace[i].outcome.results[k].segments[g].departure_time.date
                            = trace[i].date

\* both airports were selected, the calendar opened and showed no cell of
\* the requested date: the attempt ended with a warning
DateNotOnCalendar ==
    /\ Len(trace) = 1
    /\ trace[1].site = "ANA"
    /\ trace[1].form.calendar_opened
    /\ ~trace[1].env.date_visible
    /\ trace[1].outcome.warning = AnaWarnError
    /\ trace[1].outcome.aborted

\* C23: the browser an attempt opened is closed when the call returns,
\* whichever way the attempt ended, and an attempt made with auto_close off
\* waits a bounded time before it closes the browser.
BrowserClosedOnExit ==
    \A i \in 1..Len(trace) :
        trace[i].session.opened =>
            /\ trace[i].session.closed
            /\ ~trace[i].auto_close =>
                  /\ trace[i].session.waited > 0
                  /\ trace[i].session.waited <= ENA_SHOW + ENA_GRACE

\* the results page of the attempt was loaded
PageLoaded(attempt) ==
    IF attempt.site = "ANA" THEN attempt.form.loaded
    ELSE attempt.env.launch = "ok" /\ attempt.env.marker

\* the rows the deterministic parsing of the attempt's page extracts, before
\* any time-of-day filter
RowsExtracted(attempt) ==
    IF attempt.site = "ANA"
    THEN AnaParseRows(attempt.env.rows, 1, attempt.origin, attempt.dest,
                      attempt.date, "None", attempt.flexible_ticket, <<>>)
    ELSE EnaParseRows(
             IF LoadSelectors(attempt.files, EnaConfigPath,
                              EnaDefaultSelectors).container
                    \in attempt.env.present
             THEN attempt.env.rows ELSE <<>>,
             1, LoadSelectors(attempt.files, EnaConfigPath, EnaDefaultSelectors),
             attempt.origin, attempt.dest, attempt.date, <<>>)

\* C24: on a loaded results page the AI fallback extractor is invoked exactly
\* when the deterministic row parsing extracted no row: also when containers
\* matched and every row was skipped, and not when a row was parsed and the
\* time-of-day filter removed it.
FallbackExactlyOnZeroRows ==
    \A i \in 1..Len(trace) :
        PageLoaded(trace[i]) =>
            (trace[i].outcome.ai_invoked <=> RowsExtracted(trace[i]) = <<>>)

\* the minimal shape of a row: two times of day, a flight number and a
\* price above the threshold
MinimalShape(row) ==
    /\ Len(row.times) >= 2
    /\ row.flight # <<>>
    /\ \E k \in 1..Len(row.prices) : row.prices[k] > MinPlausiblePrice

HasSelectorsMap(files) ==
    /\ EnaConfigPath \in DOMAIN files
    /\ files[EnaConfigPath].kind = "json"
    /\ "selectors" \in DOMAIN files[EnaConfigPath].value

\* C29: an ENA extraction uses the compiled-in defaults, each field replaced
\* by the configuration file's `selectors` entry for it if there is one; with
\* the file absent, unparsable or without a `selectors` map it uses exactly
\* the defaults and still returns its pair; a suggestion file changes neither
\* the selectors nor what the extraction returns.
SelectorsFromConfigOnly ==
    \A i \in 1..Len(trace) :
        (trace[i].site = "ENA" /\ PageLoaded(trace[i])) =>
            /\ trace[i].outcome.returns = "tuple"
            /\ DOMAIN EnaDefaultSelectors \subseteq DOMAIN trace[i].selectors
            /\ \A k \in DOMAIN trace[i].selectors :
                  trace[i].selectors[k] =
                      IF HasSelectorsMap(trace[i].files)
                         /\ k \in DOMAIN trace[i].files[EnaConfigPath].value.selectors
                      THEN trace[i].files[EnaConfigPath].value.selectors[k]
                      ELSE EnaDefaultSelectors[k]
            /\ trace[i].outcome.results =
                  scrape_ena_flights(trace[i].origin, trace[i].dest,
                                     trace[i].date,
                                     Without(trace[i].files, EnaSuggestionPath),
                                     trace[i].env).results

\* an extraction ran with a configuration that overrides the container only
\* while a suggestion with five other selectors was pending: it used the
\* overridden container and the default fields
PartialOverrideBesideSuggestion ==
    /\ Len(trace) = 1
    /\ trace[1].site = "ENA"
    /\ PageLoaded(trace[1])
    /\ HasSelectorsMap(trace[1].files)
    /\ EnaSuggestionPath \in DOMAIN trace[1].files
    /\ trace[1].selectors.container = "li.flight-row"
    /\ trace[1].selectors.price = EnaDefaultSelectors.price
    /\ trace[1].files[EnaSuggestionPath].value.price # EnaDefaultSelectors.price
    /\ trace[1].outcome.results # <<>>

\* C30: an ANA attempt submits the search form only after both the origin
\* and the destination were selected on it; an attempt that does not find a
\* requested airport in the list ends with a warning and no payload.
SubmitOnlyWithBothAirports ==
    \A i \in 1..Len(trace) :
        trace[i].site = "ANA" =>
            /\ trace[i].form.submitted =>
                  trace[i].form.origin_selected /\ trace[i].form.dest_selected
            /\ trace[i].outcome.results # <<>> =>
                  trace[i].form.origin_selected /\ trace[i].form.dest_selected

\* the request kept in l was searched for and the search failed: the source
\* raised or was not configured, the scrape was aborted, or no raw payload
\* came back
FailedSearch(l) ==
    /\ l.op = "search"
    /\ l.response.cached # "True"
    /\ l.source_failed \/ l.raw = <<>>

\* the active selector configurations among the files
ActiveConfigs(files) ==
    [path \in {EnaConfigPath, AnaConfigPath} \cap DOMAIN files |-> files[path]]

\* C26 as stated: a failed search leaves the cache and the active selector
\* configurations exactly as they were.
FailedSearchTouchesNothing ==
    [][FailedSearch(last') =>
          /\ store' = store
          /\ ActiveConfigs(disk') = ActiveConfigs(disk)]_vars

\* C26: a failed search stores and changes no cache entry and removes none but
\* an expired entry under its own key, and leaves the active selector
\* configurations exactly as they were.
FailedSearchStoresNothing ==
    [][FailedSearch(last') =>
          /\ \A key \in DOMAIN store' :
                key \in DOMAIN store /\ store'[key] = store[key]
          /\ \A key \in DOMAIN store \ DOMAIN store' :
                /\ key = generate_cache_key(last'.request)
                /\ last'.request.searchMode # "scraper"
                /\ store[key].expire_at <= now
          /\ ActiveConfigs(disk') = ActiveConfigs(disk)]_vars

\* an API-mode search failed at its source after its cache read had removed
\* the expired entry of its key, while the configuration file stayed
FailedAfterEviction ==
    /\ FailedSearch(last)
    /\ last.source_failed
    /\ last.prior.stored
    /\ last.prior.expire_at <= now
    /\ generate_cache_key(last.request) \notin DOMAIN store
    /\ AnaConfigPath \in DOMAIN disk

\* C27: every Offer normalize_offers returns has at least one Segment and a
\* stop count of zero or more; a payload without segments yields no Offer.
EveryOfferHasASegment ==
    npc = "returned" =>
        \A i \in 1..Len(normalized.offers) :
            /\ Len(normalized.offers[i].segments) >= 1
            /\ normalized.offers[i].stops >= 0

\* C28: in every Offer made from a scraped or AI-extracted row, each
\* Segment arrives no earlier than it departs and lasts the difference of the
\* two timestamps, which is not negative, also when it arrives after midnight.
ScrapedSegmentsRunForward ==
    (npc = "returned"
        /\ \A i \in 1..Len(raw_offers) : SourceOf(raw_offers[i]) = "ena_scraper") =>
        \A i \in 1..Len(normalized.offers) :
            \A k \in 1..Len(normalized.offers[i].segments) :
                /\ normalized.offers[i].segments[k].arrival_time.date
                      = normalized.offers[i].segments[k].departure_time.date =>
                      normalized.offers[i].segments[k].arrival_time.tod
                          >= normalized.offers[i].segments[k].departure_time.tod
                /\ normalized.offers[i].segments[k].duration_minutes >= 0
                /\ normalized.offers[i].segments[k].arrival_time.date
                      = normalized.offers[i].segments[k].departure_time.date =>
                      normalized.offers[i].segments[k].duration_minutes =
                          normalized.offers[i].segments[k].arrival_time.tod
                            - normalized.offers[i].segments[k].departure_time.tod

====
